---- MODULE Spec2Model ----
(***************************************************************************)
(* ContractorOS backend (src/backend/main.py): the document-to-knowledge   *)
(* pipeline.  The embedding provider, the /parse-document ingestion        *)
(* handler, the deletion of a document's chunks, and the structured        *)
(* extraction used by the brief and task generators.                       *)
(***************************************************************************)
EXTENDS Integers, Sequences, FiniteSets, TLC

\* ------------------------------------------------------------------ bounds
\* Number of /parse-document requests a behaviour may receive.
MaxUploads == 2
\* Number of pieces a model output is made of.
MaxPieces == 3
\* Number of generation requests a behaviour may receive.
MaxGenerations == 2
\* Parts a date string is made of.
MaxDateParts == 4
\* Number of /chat/message requests a behaviour may receive.
MaxTurns == 2
\* Number of them in which a collaborator (chat backend, graph, embedding
\* model, search, durable tables) may fail.
MaxFaultyTurns == 1
MaxCrudRequests == 3
\* Number of invocations of the chat graph, and of ensure_chat_backend()
\* calls, in a behaviour that follows the graph node by node.
MaxGraphRuns == 2

\* ------------------------------------------------- constants of the program
\* CharacterTextSplitter(chunk_size=1000, chunk_overlap=100), default
\* separator "\n\n" (two characters).
ChunkSize == 1000
ChunkOverlap == 100
SepLen == 2

\* ---------------------------------------------------------------- inputs
\* Upload filenames: "" stands for a missing filename.
Filenames == {"", "a.pdf", "b.pdf", "notes.txt"}

\* A filename that ends in ".pdf" (file.filename.endswith(".pdf")).
EndsWithPdf(f) == f \in {"a.pdf", "b.pdf"}

\* A filename check that forgets the extension.
MissingNameOnly(f) == f = ""

\* Line 1384: not file.filename or not file.filename.endswith(".pdf").
NameRejected(f) == f = "" \/ ~EndsWithPdf(f)

\* Uploaded PDFs.  pages is what PyPDFLoader returns: one entry per page, a
\* page being the sequence of the lengths of its paragraphs (the maximal
\* pieces between blank-line separators, each without surrounding space).
\* size is the number of bytes of the upload.
Uploads ==
  << [pages |-> << >>,                      size |-> 10],
     [pages |-> << << >> >>,                size |-> 20],
     [pages |-> << <<400>> >>,              size |-> 30],
     [pages |-> << <<1500>> >>,             size |-> 40],
     [pages |-> << <<100>>, <<100>> >>,     size |-> 50],
     [pages |-> << <<600, 600>> >>,         size |-> 60] >>

UploadIds == 1..Len(Uploads)

\* Filenames a DELETE /documents/{filename} request may carry.
DeleteNames == {"a.pdf", "b.pdf", "Unknown", " "}

VARIABLES
  embeddings,              \* 0 = None, n > 0 = the instance built by attempt n
  embeddings_init_failed,  \* the sticky failure flag
  initAttempts,            \* number of HuggingFaceEmbeddings(...) constructions
  embCalls,                \* number of get_embeddings() calls made so far
  embReturn,               \* value returned by the latest get_embeddings()
  pc,                      \* position of the /parse-document request
  filename,                \* file.filename of the request
  upload,                  \* index into Uploads of the request's file
  temp_file_path,          \* TRUE when the local variable holds the path
  tempExists,              \* the request's temporary file is on disk
  unlinkFailed,            \* an os.unlink of the request raised
  stages,                  \* pipeline stages the request has completed
  docs,                    \* the chunks of the request (annotated or not)
  outcome,                 \* what the request returned or raised
  clock,                   \* number of requests received (datetime.now())
  store,                   \* rows of the "documents" table
  response,                \* response of the latest other handler
  chat_llm,                \* "none", or the provider of the chat model
  chat_graph,              \* TRUE when the compiled chat graph exists
  llmText,                 \* the content the chat model answers with
  llmTasks,                \* the value of "tasks" in that content: whether
                           \* it is a list, and its items
  extraction,              \* result of extract_json_block on llmText
  genCount,                \* number of requests handled after the ingestion
  llmReturned,             \* the latest generation request got model output
  genResponse,             \* response of the latest generation request
  projects,                \* rows of the "projects" table
  schedules,               \* rows of the "schedules" table
  dateValue,               \* the JSON value given to a date field
  dateResult,              \* what the date validators made of it
  ephemeral_chat_threads,  \* the in-process map: conversation id -> messages
  chat_messages,           \* rows of the "chat_messages" table, as created
  chat_conversations,      \* ids of the rows of the "chat_conversations" table
  checkpoints,             \* MemorySaver: thread id -> the graph's messages
  chatTurn,                \* what the latest /chat/message request did
  turnCount,               \* number of /chat/message requests handled
  faultyTurns,             \* how many of them met a failing collaborator
  subcontractors,          \* rows of the "subcontractors" table
  budgets,                 \* rows of the "budgets" table
  crudResponse,            \* response of the latest by-id request
  crudCount,               \* number of subcontractor, budget and by-id requests
  backendCall,             \* what the latest ensure_chat_backend() call did
  graphRun,                \* the invocation of the chat graph under way
  graphRuns                \* number of invocations of the chat graph started

embVars == <<embeddings, embeddings_init_failed, initAttempts, embCalls, embReturn>>
reqVars == <<pc, filename, upload, temp_file_path, tempExists, unlinkFailed,
             stages, docs, outcome, clock>>
chatVars == <<chat_llm, chat_graph>>
genVars == <<llmText, llmTasks, extraction, genCount, llmReturned, genResponse, projects, schedules>>
normVars == <<dateValue, dateResult>>
convVars == <<ephemeral_chat_threads, chat_messages, chat_conversations, checkpoints,
              chatTurn, turnCount, faultyTurns>>
crudVars == <<subcontractors, budgets, crudResponse, crudCount>>
graphVars == <<graphRun, graphRuns>>
auxVars == <<normVars, convVars, crudVars, backendCall, graphVars>>
vars == <<embVars, reqVars, store, response, chatVars, genVars, auxVars>>

\* ------------------------------------------------------------ helpers
RECURSIVE SumSeq(_)
SumSeq(s) == IF s = << >> THEN 0 ELSE Head(s) + SumSeq(Tail(s))

\* Length of sep.join(parts) for parts of the given lengths.
JoinLen(lens, sep) ==
  IF lens = << >> THEN 0 ELSE SumSeq(lens) + sep * (Len(lens) - 1)

RECURSIVE FlattenSeq(_)
FlattenSeq(ss) == IF ss = << >> THEN << >> ELSE Head(ss) \o FlattenSeq(Tail(ss))

\* -------------------------------------------------- embedding provider
\* get_embeddings() without the sticky flag: a failed construction is tried
\* again by the next call.
GetEmbeddingsRetry(ok) ==
  IF embeddings # 0 THEN
    [emb |-> embeddings, failed |-> embeddings_init_failed,
     attempts |-> initAttempts, ret |-> embeddings]
  ELSE IF ok THEN
    [emb |-> initAttempts + 1, failed |-> FALSE,
     attempts |-> initAttempts + 1, ret |-> initAttempts + 1]
  ELSE
    [emb |-> 0, failed |-> TRUE,
     attempts |-> initAttempts + 1, ret |-> 0]

\* get_embeddings(): ok is whether the model construction succeeds, should
\* it be attempted.  Yields the new globals and the returned value.
GetEmbeddings(ok) ==
  IF embeddings # 0 THEN
    [emb |-> embeddings, failed |-> embeddings_init_failed,
     attempts |-> initAttempts, ret |-> embeddings]
  ELSE IF embeddings_init_failed THEN
    [emb |-> embeddings, failed |-> embeddings_init_failed,
     attempts |-> initAttempts, ret |-> 0]
  ELSE IF ok THEN
    [emb |-> initAttempts + 1, failed |-> FALSE,
     attempts |-> initAttempts + 1, ret |-> initAttempts + 1]
  ELSE
    [emb |-> 0, failed |-> TRUE,
     attempts |-> initAttempts + 1, ret |-> 0]

\* The assignment of the globals by one get_embeddings() call.
CallGetEmbeddings(r) ==
  /\ embeddings' = r.emb
  /\ embeddings_init_failed' = r.failed
  /\ initAttempts' = r.attempts
  /\ embCalls' = embCalls + 1
  /\ embReturn' = r.ret

\* ------------------------------------------------------------ chunker
\* TextSplitter._merge_splits: the popping loop that keeps the overlap.
RECURSIVE PopWhile(_, _, _)
PopWhile(current, total, len) ==
  IF current # << >> /\
     (total > ChunkOverlap \/
      (total + len + (IF Len(current) > 0 THEN SepLen ELSE 0) > ChunkSize /\ total > 0))
  THEN PopWhile(Tail(current),
                total - (Head(current) + (IF Len(current) > 1 THEN SepLen ELSE 0)),
                len)
  ELSE [current |-> current, total |-> total]

\* TextSplitter._merge_splits over the lengths of the splits; yields the
\* lengths of the chunks.
RECURSIVE MergeSplits(_, _, _, _)
MergeSplits(splits, out, current, total) ==
  IF splits = << >> THEN
    IF current = << >> THEN out ELSE Append(out, JoinLen(current, SepLen))
  ELSE
    LET len == Head(splits)
        over == total + len + (IF Len(current) > 0 THEN SepLen ELSE 0) > ChunkSize
        emit == over /\ Len(current) > 0
        out2 == IF emit THEN Append(out, JoinLen(current, SepLen)) ELSE out
        kept == IF emit THEN PopWhile(current, total, len)
                ELSE [current |-> current, total |-> total]
        cur2 == Append(kept.current, len)
    IN MergeSplits(Tail(splits), out2, cur2,
                   kept.total + len + (IF Len(cur2) > 1 THEN SepLen ELSE 0))

\* CharacterTextSplitter.split_text of one page.
SplitText(page) == MergeSplits(page, << >>, << >>, 0)

\* text_splitter.split_documents(documents): every page is split on its own
\* and the chunks are listed page after page.
SplitDocuments(pages) ==
  FlattenSeq([i \in 1..Len(pages) |-> SplitText(pages[i])])

\* Length of a page's text and of "\n\n".join(page texts).
PageLen(page) == JoinLen(page, SepLen)
FullTextLen(pages) == JoinLen([i \in 1..Len(pages) |-> PageLen(pages[i])], SepLen)

\* ------------------------------------------------------- outcomes
NoOutcome == [kind |-> "none", status |-> 0, detail |-> "none"]
HttpError(status, detail) == [kind |-> "error", status |-> status, detail |-> detail]

\* Lines 1478-1486: what the generic except clause raises.
UnexpectedError == HttpError(500, "failed_to_parse")
Summary(n) == [kind |-> "summary", status |-> 200, detail |-> "processed",
               chunk_count |-> n]

\* A metadata update that counts the chunks from one.
AnnotatedFromOne(i, n, len) ==
  [filename |-> filename, upload_timestamp |-> clock,
   file_size |-> Uploads[upload].size,
   page_count |-> Len(Uploads[upload].pages),
   chunk_index |-> i, total_chunks |-> n,
   full_document_text |-> upload, content |-> len]

\* The metadata update of lines 1433-1444 applied to chunk i of n.
Annotated(i, n, len) ==
  [filename |-> filename, upload_timestamp |-> clock,
   file_size |-> Uploads[upload].size,
   page_count |-> Len(Uploads[upload].pages),
   chunk_index |-> i - 1, total_chunks |-> n,
   full_document_text |-> upload, content |-> len]

\* The finally block: the file is unlinked when the path variable is set and
\* the file exists; unlinkOk is whether that unlink succeeds (a failure is
\* printed).  Yields whether the file still exists and whether unlink raised.
Finally(unlinkOk) ==
  IF temp_file_path /\ tempExists
  THEN [exists |-> ~unlinkOk, failed |-> unlinkFailed \/ ~unlinkOk]
  ELSE [exists |-> tempExists, failed |-> unlinkFailed]

\* An exception or HTTPException raised inside the try block: the except
\* clauses turn it into err, the finally block runs, the request ends.
RaiseInTry(err, unlinkOk) ==
  /\ pc' = "done"
  /\ outcome' = err
  /\ tempExists' = Finally(unlinkOk).exists
  /\ unlinkFailed' = Finally(unlinkOk).failed
  /\ UNCHANGED <<filename, upload, temp_file_path, stages, docs, clock>>

\* Other handlers run only while no /parse-document request is executing
\* or while it is suspended in `await file.read()`.
Yielded == pc \in {"idle", "done", "reading"}

\* ------------------------------------------------ structured extraction
\* Model output is a sequence of tokens:
\*   "F" the fence ```          "J" the word json (any case)
\*   "W" a space or newline     "N" a blank line (two newlines)
\*   "L" {    "R" }             "P" a run of prose without the others
\*   "A" a member list holding the keys the caller's schema requires
\*   "B" a member list without them      "K" a key and its colon, "k":
\*   "T" <think>   "E" </think>
IsSpace(c) == c \in {"W", "N"}

\* Index of the first token at or after i that is no whitespace (Len(t) + 1
\* when there is none): the greedy \s*.
RECURSIVE SkipSpace(_, _)
SkipSpace(t, i) ==
  IF i <= Len(t) /\ IsSpace(t[i]) THEN SkipSpace(t, i + 1) ELSE i

\* str.strip().
RECURSIVE LStrip(_)
LStrip(t) == IF t # << >> /\ IsSpace(Head(t)) THEN LStrip(Tail(t)) ELSE t
RECURSIVE RStrip(_)
RStrip(t) ==
  IF t # << >> /\ IsSpace(t[Len(t)]) THEN RStrip(SubSeq(t, 1, Len(t) - 1)) ELSE t
Strip(t) == RStrip(LStrip(t))

\* Positions of a token.
IndexFrom(t, c, i) ==
  LET hits == {j \in i..Len(t) : t[j] = c}
  IN IF hits = {} THEN 0 ELSE CHOOSE j \in hits : \A k \in hits : j <= k

\* re.sub(r"<think>.*?</think>\s*", "", content): every <think> with a later
\* </think> goes, up to the nearest </think> and the whitespace after it.
RECURSIVE DropClosedThink(_, _)
DropClosedThink(t, i) ==
  IF i > Len(t) THEN << >>
  ELSE IF t[i] = "T" /\ IndexFrom(t, "E", i + 1) # 0
  THEN DropClosedThink(t, SkipSpace(t, IndexFrom(t, "E", i + 1) + 1))
  ELSE <<t[i]>> \o DropClosedThink(t, i + 1)

\* re.sub(r"<think>.*?(?=\n\n|\Z)", "", cleaned): an unclosed <think> goes,
\* up to the next blank line (kept) or the end of the text.
RECURSIVE DropOpenThink(_, _)
DropOpenThink(t, i) ==
  IF i > Len(t) THEN << >>
  ELSE IF t[i] = "T"
  THEN LET n == IndexFrom(t, "N", i + 1)
       IN IF n = 0 THEN << >> ELSE DropOpenThink(t, n)
  ELSE <<t[i]>> \o DropOpenThink(t, i + 1)

\* clean_ai_response(content).
CleanAiResponse(t) == Strip(DropOpenThink(DropClosedThink(t, 1), 1))

\* The span of the pattern ```(?:json)?\s*(\{.*?\})\s*``` anchored at the
\* fence at position i: <<first, last>> of group 1, or <<0, 0>>.
FenceMatchAt(t, i) ==
  IF i > Len(t) \/ t[i] # "F" THEN <<0, 0>>
  ELSE LET j == IF i + 1 <= Len(t) /\ t[i + 1] = "J" THEN i + 2 ELSE i + 1
           s == SkipSpace(t, j)
           ends == {e \in (s + 1)..Len(t) :
                      /\ t[e] = "R"
                      /\ SkipSpace(t, e + 1) <= Len(t)
                      /\ t[SkipSpace(t, e + 1)] = "F"}
       IN IF s > Len(t) \/ t[s] # "L" \/ ends = {} THEN <<0, 0>>
          ELSE <<s, CHOOSE e \in ends : \A k \in ends : e <= k>>

\* re.search of the fence pattern: the match with the leftmost fence.
FenceSearch(t) ==
  LET starts == {i \in 1..Len(t) : FenceMatchAt(t, i) # <<0, 0>>}
  IN IF starts = {} THEN <<0, 0>>
     ELSE FenceMatchAt(t, CHOOSE i \in starts : \A k \in starts : i <= k)

\* re.search(r"\{.*\}", text, DOTALL): the first { to the last } after it.
BraceSearch(t) ==
  LET a == IndexFrom(t, "L", 1)
      rs == {j \in 1..Len(t) : t[j] = "R" /\ j > a}
  IN IF a = 0 \/ rs = {} THEN <<0, 0>>
     ELSE <<a, CHOOSE j \in rs : \A k \in rs : k <= j>>

\* A JSON object, whitespace removed: {} or {members} or {"k": object}.
RECURSIVE IsJsonObject(_)
IsJsonObject(c) ==
  /\ Len(c) >= 2 /\ c[1] = "L" /\ c[Len(c)] = "R"
  /\ \/ Len(c) = 2
     \/ Len(c) = 3 /\ c[2] \in {"A", "B"}
     \/ Len(c) >= 5 /\ c[2] = "K" /\ IsJsonObject(SubSeq(c, 3, Len(c) - 1))

NoSpace(c) == SelectSeq(c, LAMBDA x : ~IsSpace(x))

\* json.loads(candidate): the object (its tokens without whitespace) or the
\* JSONDecodeError.
JsonLoads(c) ==
  IF IsJsonObject(NoSpace(c))
  THEN [ok |-> TRUE, value |-> NoSpace(c)]
  ELSE [ok |-> FALSE, value |-> << >>]

ParseFailure(why) == [ok |-> FALSE, value |-> << >>, via |-> why]

\* extract_json_block(text): ok is FALSE for the ValueError; via tells which
\* search gave the candidate.
ExtractJsonBlock(t) ==
  IF t = << >> THEN ParseFailure("empty")
  ELSE LET fence == FenceSearch(t)
           brace == BraceSearch(t)
       IN IF fence # <<0, 0>>
          THEN JsonLoads(SubSeq(t, fence[1], fence[2])) @@ [via |-> "fence"]
          ELSE IF brace = <<0, 0>> THEN ParseFailure("none")
          ELSE JsonLoads(SubSeq(t, brace[1], brace[2])) @@ [via |-> "brace"]

\* ------------------------------------------------------------ Init
NotExtracted == [ok |-> FALSE, value |-> << >>, via |-> "pending"]
NoGenResponse ==
  [op |-> "none", status |-> 0, detail |-> "none", data |-> << >>, persisted |-> FALSE]

\* Lines 97-104 and 1651: the chat model is built at import, or is None; the
\* graph is compiled exactly when the model exists.
InitChat ==
  /\ chat_llm \in {"none", "ollama"}
  /\ chat_graph = (chat_llm # "none")

\* No generation request yet; no model output under consideration.
InitGenIdle ==
  /\ llmText = << >>
  /\ llmTasks = [list |-> FALSE, items |-> << >>]
  /\ extraction = NotExtracted
  /\ genCount = 0
  /\ llmReturned = FALSE
  /\ genResponse = NoGenResponse
  /\ projects = << >>
  /\ schedules = << >>

\* No date field has been validated.
NoDate == [t |-> "none"]
InitNormIdle ==
  /\ dateValue = NoDate
  /\ dateResult = [project |-> NoDate, task |-> NoDate]
\* No chat request was handled: empty map, empty tables, no checkpoint.
EmptyMap == [k \in {} |-> << >>]
NoTurn ==
  [status |-> 0, detail |-> "none", message |-> << >>, id |-> << >>,
   reply |-> << >>, search |-> "none", graph |-> "none", input |-> << >>,
   graphMessages |-> << >>, next_index |-> 0, calls |-> {}]
InitConvIdle ==
  /\ ephemeral_chat_threads = EmptyMap
  /\ chat_messages = << >>
  /\ chat_conversations = {}
  /\ checkpoints = EmptyMap
  /\ chatTurn = NoTurn
  /\ turnCount = 0
  /\ faultyTurns = 0
\* No by-id request was handled, and the two tables are empty.
NoCrud == [op |-> "none", resource |-> "none", id |-> 0, status |-> 0,
           detail |-> "none", data |-> << >>]
InitCrudIdle ==
  /\ subcontractors = << >>
  /\ budgets = << >>
  /\ crudResponse = NoCrud
  /\ crudCount = 0
\* ensure_chat_backend() was not called yet.
NoBackendCall ==
  [calls |-> 0, failed |-> 0, attempts |-> << >>, ready |-> FALSE,
   env |-> [compile1 |-> FALSE, ollama |-> FALSE, openaiKey |-> FALSE,
            openai |-> FALSE, compile2 |-> FALSE]]
InitBackendIdle == backendCall = NoBackendCall
\* The chat graph was never invoked.
NoGraphRun ==
  [pc |-> "idle", visited |-> << >>, last |-> "none", invocations |-> 0,
   tool |-> "none", unavailable |-> FALSE]
InitGraphIdle ==
  /\ graphRun = NoGraphRun
  /\ graphRuns = 0
InitAuxIdle ==
  InitNormIdle /\ InitConvIdle /\ InitCrudIdle /\ InitBackendIdle /\ InitGraphIdle

\* The state in which nothing was uploaded yet.
InitNoUpload ==
  /\ embeddings = 0
  /\ embeddings_init_failed = FALSE
  /\ initAttempts = 0
  /\ embCalls = 0
  /\ embReturn = 0
  /\ pc = "idle"
  /\ filename = ""
  /\ upload = 1
  /\ temp_file_path = FALSE
  /\ tempExists = FALSE
  /\ unlinkFailed = FALSE
  /\ stages = << >>
  /\ docs = << >>
  /\ outcome = NoOutcome
  /\ clock = 0
  /\ store = {}
  /\ response = [op |-> "none", status |-> 0, arg |-> "", count |-> 0]

Init ==
  /\ InitChat
  /\ InitGenIdle
  /\ InitNoUpload
  /\ InitAuxIdle

\* ------------------------------------------------- /parse-document
\* A new upload arrives.
Receive(f, u) ==
  /\ UNCHANGED <<chatVars, genVars, auxVars>>
  /\ pc \in {"idle", "done"}
  /\ clock < MaxUploads
  /\ pc' = "received"
  /\ filename' = f
  /\ upload' = u
  /\ temp_file_path' = FALSE
  /\ tempExists' = FALSE
  /\ unlinkFailed' = FALSE
  /\ stages' = << >>
  /\ docs' = << >>
  /\ outcome' = NoOutcome
  /\ clock' = clock + 1
  /\ UNCHANGED <<embVars, store, response>>

\* Lines 1384-1391: the filename check, then the embedding provider.
Validate(initOk) ==
  /\ UNCHANGED <<chatVars, genVars, auxVars>>
  /\ pc = "received"
  /\ IF NameRejected(filename) THEN
       /\ pc' = "done"
       /\ outcome' = HttpError(400, "only_pdf")
       /\ UNCHANGED <<embVars, stages>>
     ELSE
       LET r == GetEmbeddings(initOk) IN
       /\ CallGetEmbeddings(r)
       /\ IF r.ret = 0 THEN
            /\ pc' = "done"
            /\ outcome' = HttpError(500, "embeddings_unavailable")
            /\ UNCHANGED stages
          ELSE
            /\ pc' = "validated"
            /\ stages' = Append(stages, "validated")
            /\ UNCHANGED outcome
  /\ UNCHANGED <<filename, upload, temp_file_path, tempExists, unlinkFailed,
                 docs, clock, store, response>>

\* Line 1397: NamedTemporaryFile(delete=False) creates the file, or raises.
OpenTemp(created) ==
  /\ UNCHANGED <<chatVars, genVars, auxVars>>
  /\ pc = "validated"
  /\ IF created THEN
       /\ pc' = "reading"
       /\ tempExists' = TRUE
       /\ UNCHANGED <<filename, upload, temp_file_path, unlinkFailed, stages,
                      docs, outcome, clock>>
     ELSE RaiseInTry(UnexpectedError, TRUE)
  /\ UNCHANGED <<embVars, store, response>>

\* Lines 1398-1400: await file.read(), temp_file.write(content), and only
\* then temp_file_path = temp_file.name.
ReadWrite(ok) ==
  /\ UNCHANGED <<chatVars, genVars, auxVars>>
  /\ pc = "reading"
  /\ IF ok THEN
       /\ pc' = "written"
       /\ temp_file_path' = TRUE
       /\ UNCHANGED <<filename, upload, tempExists, unlinkFailed, stages,
                      docs, outcome, clock>>
     ELSE RaiseInTry(UnexpectedError, TRUE)
  /\ UNCHANGED <<embVars, store, response>>

\* Lines 1407-1414: PyPDFLoader(...).load() and the empty check.
Extract(loadOk, unlinkOk) ==
  /\ UNCHANGED <<chatVars, genVars, auxVars>>
  /\ pc = "written"
  /\ IF ~loadOk THEN RaiseInTry(UnexpectedError, unlinkOk)
     ELSE IF Uploads[upload].pages = << >>
     THEN RaiseInTry(HttpError(400, "no_content"), unlinkOk)
     ELSE /\ pc' = "extracted"
          /\ stages' = Append(stages, "extracted")
          /\ UNCHANGED <<filename, upload, temp_file_path, tempExists,
                         unlinkFailed, docs, outcome, clock>>
  /\ UNCHANGED <<embVars, store, response>>

\* Lines 1417-1428: the full text, the split and the empty check.
Chunk(unlinkOk) ==
  /\ UNCHANGED <<chatVars, genVars, auxVars>>
  /\ pc = "extracted"
  /\ LET split == SplitDocuments(Uploads[upload].pages) IN
     IF split = << >>
     THEN RaiseInTry(HttpError(400, "not_splittable"), unlinkOk)
     ELSE /\ pc' = "chunked"
          /\ docs' = split
          /\ stages' = Append(stages, "chunked")
          /\ UNCHANGED <<filename, upload, temp_file_path, tempExists,
                         unlinkFailed, outcome, clock>>
  /\ UNCHANGED <<embVars, store, response>>

\* Lines 1430-1444: the metadata of every chunk.
Annotate ==
  /\ UNCHANGED <<chatVars, genVars, auxVars>>
  /\ pc = "chunked"
  /\ pc' = "annotated"
  /\ docs' = [i \in 1..Len(docs) |-> Annotated(i, Len(docs), docs[i])]
  /\ stages' = Append(stages, "annotated")
  /\ UNCHANGED <<filename, upload, temp_file_path, tempExists, unlinkFailed,
                 outcome, clock>>
  /\ UNCHANGED <<embVars, store, response>>

\* Lines 1446-1449: os.unlink(temp_file_path) inside the try block.  When it
\* raises, temp_file_path is still set, the generic except clause answers
\* 500 and the finally block tries the unlink again.
Cleanup(unlinkOk, retryOk) ==
  /\ UNCHANGED <<chatVars, genVars, auxVars>>
  /\ pc = "annotated"
  /\ IF unlinkOk THEN
       /\ pc' = "cleaned"
       /\ tempExists' = FALSE
       /\ temp_file_path' = FALSE
       /\ UNCHANGED <<filename, upload, unlinkFailed, stages, docs, outcome, clock>>
     ELSE
       /\ pc' = "done"
       /\ outcome' = UnexpectedError
       /\ tempExists' = ~retryOk
       /\ unlinkFailed' = TRUE
       /\ UNCHANGED <<filename, upload, temp_file_path, stages, docs, clock>>
  /\ UNCHANGED <<embVars, store, response>>

\* A storage step that swallows a failed insert and answers the summary.
StoreSwallow(insertOk) ==
  /\ UNCHANGED <<chatVars, genVars, auxVars>>
  /\ pc = "cleaned"
  /\ pc' = "done"
  /\ store' = IF insertOk THEN store \cup {docs[i] : i \in 1..Len(docs)} ELSE store
  /\ stages' = IF insertOk THEN Append(stages, "stored") ELSE stages
  /\ outcome' = Summary(Len(docs))
  /\ UNCHANGED <<filename, upload, temp_file_path, tempExists,
                 unlinkFailed, docs, clock>>
  /\ UNCHANGED <<embVars, response>>

\* Lines 1451-1474: SupabaseVectorStore.from_documents and the summary.  The
\* rows go in one batch (chunk_size=500 exceeds every modelled chunk count),
\* so a failed insert stores nothing.
Store(insertOk) ==
  /\ UNCHANGED <<chatVars, genVars, auxVars>>
  /\ pc = "cleaned"
  /\ IF insertOk THEN
       /\ pc' = "done"
       /\ store' = store \cup {docs[i] : i \in 1..Len(docs)}
       /\ stages' = Append(stages, "stored")
       /\ outcome' = Summary(Len(docs))
       /\ UNCHANGED <<filename, upload, temp_file_path, tempExists,
                      unlinkFailed, docs, clock>>
     ELSE
       /\ RaiseInTry(UnexpectedError, TRUE)
       /\ UNCHANGED store
  /\ UNCHANGED <<embVars, response>>

\* --------------------------------------- DELETE /documents/{filename}
\* A delete that removes only the rows of the latest upload of f.
RowsOfLatestUpload(f) ==
  {r \in store : r.filename = f /\
     \A q \in store : q.filename = f => q.upload_timestamp <= r.upload_timestamp}

\* Lines 991-996: .delete().eq("metadata->>filename", filename).
RowsToDelete(f) == {r \in store : r.filename = f}

\* Lines 964-1011.  selectOk and deleteOk: whether the two table calls succeed.
DeleteDocument(f, selectOk, deleteOk) ==
  /\ UNCHANGED <<chatVars, genVars, auxVars>>
  /\ Yielded
  /\ IF f = "Unknown" \/ f = " " THEN
       /\ response' = [op |-> "delete", status |-> 400, arg |-> f, count |-> 0]
       /\ UNCHANGED store
     ELSE IF ~selectOk THEN
       /\ response' = [op |-> "delete", status |-> 500, arg |-> f, count |-> 0]
       /\ UNCHANGED store
     ELSE IF {r \in store : r.filename = f} = {} THEN
       /\ response' = [op |-> "delete", status |-> 404, arg |-> f, count |-> 0]
       /\ UNCHANGED store
     ELSE IF ~deleteOk THEN
       /\ response' = [op |-> "delete", status |-> 500, arg |-> f, count |-> 0]
       /\ UNCHANGED store
     ELSE
       /\ response' = [op |-> "delete", status |-> 200, arg |-> f,
                        count |-> Cardinality(RowsToDelete(f))]
       /\ store' = store \ RowsToDelete(f)
  /\ UNCHANGED <<embVars, reqVars>>

\* ------------------------------------------------------- chat backend
\* The collaborators' answers to one ensure_chat_backend() call: whether
\* compiling the graph succeeds (first and second attempt), whether ChatOllama
\* can be built, whether OPENAI_API_KEY is set, whether ChatOpenAI can be built.
BackendEnvs ==
  [compile1 : BOOLEAN, ollama : BOOLEAN, openaiKey : BOOLEAN,
   openai : BOOLEAN, compile2 : BOOLEAN]

\* The answers that differ in something the call consults in the current
\* state (an answer that is not consulted is listed as FALSE).
BackendEnvsNow ==
  {env \in BackendEnvs :
     /\ chat_graph => ~env.compile1 /\ ~env.compile2
     /\ (chat_graph \/ chat_llm # "none") =>
          ~env.ollama /\ ~env.openaiKey /\ ~env.openai
     /\ (chat_llm = "none") => ~env.compile1
     /\ env.ollama => ~env.openaiKey /\ ~env.openai
     /\ ~env.openaiKey => ~env.openai
     /\ (chat_llm = "none" /\ ~env.ollama /\ ~(env.openaiKey /\ env.openai))
          => ~env.compile2}

\* The collaborators let a call end with a graph: the graph exists, or a
\* model exists or can be built and the graph compiles.
BackendAvailable(env) ==
  \/ chat_graph
  \/ chat_llm # "none" /\ (env.compile1 \/ env.compile2)
  \/ chat_llm = "none" /\ (env.ollama \/ (env.openaiKey /\ env.openai)) /\ env.compile2

\* An ensure_chat_backend() that gives up for good after a failed call, as
\* get_embeddings() does.
EnsureChatBackendSticky(env) ==
  IF chat_graph THEN [llm |-> chat_llm, graph |-> TRUE, ready |-> TRUE]
  ELSE IF backendCall.failed > 0 THEN [llm |-> chat_llm, graph |-> FALSE, ready |-> FALSE]
  ELSE IF chat_llm # "none" /\ env.compile1
  THEN [llm |-> chat_llm, graph |-> TRUE, ready |-> TRUE]
  ELSE LET llm == IF chat_llm # "none" THEN chat_llm
                  ELSE IF env.ollama THEN "ollama"
                  ELSE IF env.openaiKey /\ env.openai THEN "openai"
                  ELSE "none"
           graph == llm # "none" /\ env.compile2
       IN [llm |-> llm, graph |-> graph, ready |-> graph]

\* An ensure_chat_backend() that builds the model anew in every call.
EnsureRebuildsModel(env) ==
  LET llm == IF env.ollama THEN "ollama"
             ELSE IF env.openaiKey /\ env.openai THEN "openai"
             ELSE "none"
      graph == chat_graph \/ (llm # "none" /\ env.compile2)
  IN [llm |-> llm, graph |-> graph, ready |-> graph]

\* An ensure_chat_backend() that reports the model instead of the graph.
EnsureReportsModel(env) ==
  IF chat_graph THEN [llm |-> chat_llm, graph |-> TRUE, ready |-> TRUE]
  ELSE IF chat_llm # "none" /\ env.compile1
  THEN [llm |-> chat_llm, graph |-> TRUE, ready |-> TRUE]
  ELSE LET llm == IF chat_llm # "none" THEN chat_llm
                  ELSE IF env.ollama THEN "ollama"
                  ELSE IF env.openaiKey /\ env.openai THEN "openai"
                  ELSE "none"
           graph == llm # "none" /\ env.compile2
       IN [llm |-> llm, graph |-> graph, ready |-> llm # "none"]

\* ensure_chat_backend(): the new globals and the returned flag.
EnsureChatBackend(env) ==
  IF chat_graph THEN [llm |-> chat_llm, graph |-> TRUE, ready |-> TRUE]
  ELSE IF chat_llm # "none" /\ env.compile1
  THEN [llm |-> chat_llm, graph |-> TRUE, ready |-> TRUE]
  ELSE LET llm == IF chat_llm # "none" THEN chat_llm
                  ELSE IF env.ollama THEN "ollama"
                  ELSE IF env.openaiKey /\ env.openai THEN "openai"
                  ELSE "none"
           graph == llm # "none" /\ env.compile2
       IN [llm |-> llm, graph |-> graph, ready |-> graph]

\* The initialisations one ensure_chat_backend() call attempts, in order:
\* "compile" is create_chat_graph(), "ollama" ChatOllama(...), "openai"
\* ChatOpenAI(...).
BackendAttempts(env) ==
  IF chat_graph THEN << >>
  ELSE IF chat_llm # "none" /\ env.compile1 THEN <<"compile">>
  ELSE LET first == IF chat_llm # "none" THEN <<"compile">> ELSE << >>
           providers ==
             IF chat_llm # "none" THEN << >>
             ELSE <<"ollama">> \o (IF ~env.ollama /\ env.openaiKey THEN <<"openai">>
                                   ELSE << >>)
           second == IF EnsureChatBackend(env).llm # "none" THEN <<"compile">> ELSE << >>
       IN first \o providers \o second

\* The record of one call: its number, how many calls returned False so
\* far, what it attempted, what it returned, and the collaborators' answers.
RecordBackendCall(env) ==
  backendCall' =
    [calls |-> backendCall.calls + 1,
     failed |-> backendCall.failed + (IF EnsureChatBackend(env).ready THEN 0 ELSE 1),
     attempts |-> BackendAttempts(env),
     ready |-> EnsureChatBackend(env).ready,
     env |-> env]

\* ------------------------------------ GET /documents/{filename} (callee)
\* Length of "\n\n".join(chunk contents), the fallback content.
RECURSIVE ContentLen(_)
ContentLen(rows) ==
  IF rows = {} THEN 0
  ELSE LET r == CHOOSE x \in rows : TRUE
       IN r.content + (IF rows = {r} THEN 0 ELSE SepLen + ContentLen(rows \ {r}))

\* get_document_by_filename(filename): first is the row the select lists
\* first.  Yields the status and the length of the document's content.
GetDocument(f, selectOk, first) ==
  IF f = "Unknown" \/ f = " " THEN [status |-> 400, detail |-> "invalid_filename", len |-> 0]
  ELSE IF ~selectOk THEN [status |-> 500, detail |-> "fetch_error", len |-> 0]
  ELSE IF {r \in store : r.filename = f} = {}
  THEN [status |-> 404, detail |-> "not_found", len |-> 0]
  ELSE LET full == FullTextLen(Uploads[first.full_document_text].pages)
       IN [status |-> 200, detail |-> "ok",
           len |-> IF full # 0 THEN full
                   ELSE ContentLen({r \in store : r.filename = f})]

\* Rows the select of get_document_by_filename may list first.
FirstRows(f) ==
  IF {r \in store : r.filename = f} = {} THEN {[full_document_text |-> 1, content |-> 0]}
  ELSE {r \in store : r.filename = f}

GenNames == {"a.pdf", "zzz.pdf", "Unknown"}

GenError(op, status, detail) ==
  [op |-> op, status |-> status, detail |-> detail, data |-> << >>, persisted |-> FALSE]

\* ------------------------- POST /documents/{filename}/generate-project
\* A parse that, when no object can be extracted, guesses an empty brief
\* instead of failing.
ParseProjectGuess(t) ==
  LET ex == ExtractJsonBlock(CleanAiResponse(t))
  IN IF ex.ok /\ ex.value = <<"L", "A", "R">>
     THEN [ok |-> TRUE, project |-> ex.value]
     ELSE [ok |-> TRUE, project |-> <<"L", "R">>]

\* Lines 1095-1104: clean_ai_response, extract_json_block, and
\* GeneratedProjectDetails(**payload), which needs name and description.
ParseProject(t) ==
  LET ex == ExtractJsonBlock(CleanAiResponse(t))
  IN IF ex.ok /\ ex.value = <<"L", "A", "R">>
     THEN [ok |-> TRUE, project |-> ex.value]
     ELSE [ok |-> FALSE, project |-> << >>]

\* Lines 1016-1140.  The collaborators' answers are drawn where the code
\* consults them: the select of the document, the chat backend, the model
\* call, the insert.
GenerateProject(f, persist) ==
  /\ genCount < MaxGenerations
  /\ genCount' = genCount + 1
  /\ \E selectOk \in BOOLEAN, first \in FirstRows(f) :
       LET doc == GetDocument(f, selectOk, first)
           parsed == ParseProject(llmText)
           op == "generate_project"
       IN IF doc.status # 200 THEN
            /\ genResponse' = GenError(op, doc.status, doc.detail)
            /\ UNCHANGED <<chatVars, projects>> /\ llmReturned' = FALSE
          ELSE IF doc.len = 0 THEN
            /\ genResponse' = GenError(op, 400, "no_text")
            /\ UNCHANGED <<chatVars, projects>> /\ llmReturned' = FALSE
          ELSE \E env \in BackendEnvsNow :
            LET backend == EnsureChatBackend(env) IN
            /\ chat_llm' = backend.llm
            /\ chat_graph' = backend.graph
            /\ IF ~backend.ready THEN
                 /\ genResponse' = GenError(op, 503, "model_unavailable")
                 /\ UNCHANGED projects /\ llmReturned' = FALSE
               ELSE \E llmOk \in BOOLEAN :
                 IF ~llmOk THEN
                   /\ genResponse' = GenError(op, 500, "llm_error")
                   /\ UNCHANGED projects /\ llmReturned' = FALSE
                 ELSE
                   /\ llmReturned' = TRUE
                   /\ IF ~parsed.ok THEN
                        /\ genResponse' = GenError(op, 502, "parse_error")
                        /\ UNCHANGED projects
                      ELSE IF ~persist THEN
                        /\ genResponse' = [op |-> op, status |-> 200, detail |-> "ok",
                                           data |-> parsed.project, persisted |-> FALSE]
                        /\ UNCHANGED projects
                      ELSE \E insertOk \in BOOLEAN :
                        IF ~insertOk THEN
                          /\ genResponse' = GenError(op, 500, "persist_error")
                          /\ UNCHANGED projects
                        ELSE
                          /\ genResponse' = [op |-> op, status |-> 200, detail |-> "ok",
                                             data |-> parsed.project, persisted |-> TRUE]
                          /\ projects' = Append(projects, [name |-> parsed.project,
                                                           status |-> "planning"])
  /\ UNCHANGED <<auxVars, embVars, reqVars, store, response, llmText, llmTasks, extraction,
                 schedules>>

\* ------------------------------------------------------ POST /projects
\* Lines 373-385: the row is inserted with the model's default status, and a
\* failing insert is a 500.
CreateProject(insertOk) ==
  /\ genCount < MaxGenerations
  /\ genCount' = genCount + 1
  /\ llmReturned' = FALSE
  /\ IF insertOk
     THEN /\ projects' = Append(projects, [name |-> <<"P">>, status |-> "active"])
          /\ genResponse' = [op |-> "create_project", status |-> 200, detail |-> "ok",
                             data |-> <<"P">>, persisted |-> TRUE]
     ELSE /\ UNCHANGED projects
          /\ genResponse' = GenError("create_project", 500, "insert_error")
  /\ UNCHANGED <<auxVars, embVars, reqVars, store, response, chatVars, llmText, llmTasks,
                 extraction, schedules>>

\* -------------------------------------------- generated schedule tasks
\* JSON values of a field: null (or absent), a string (its characters), a
\* number, a boolean, a list (its length).
Null == [t |-> "null"]
Str(chars) == [t |-> "str", s |-> chars]
Num(n) == [t |-> "num", n |-> n]

Bool(b) == [t |-> "bool", b |-> b]
List(n) == [t |-> "list", n |-> n]

\* Python truthiness of a JSON value (a list by its length).
Truthy(v) ==
  CASE v.t = "null" -> FALSE
    [] v.t = "str" -> v.s # << >>
    [] v.t = "num" -> v.n # 0
    [] v.t = "bool" -> v.b
    [] v.t = "list" -> v.n # 0

Digits == <<"0", "1", "2", "3", "4", "5", "6", "7", "8", "9">>
IsDigit(c) == \E i \in 1..Len(Digits) : Digits[i] = c
DigitVal(c) == (CHOOSE i \in 1..Len(Digits) : Digits[i] = c) - 1

\* str.strip() and str.lower() on characters.
RECURSIVE LStripChars(_)
LStripChars(t) == IF t # << >> /\ Head(t) = " " THEN LStripChars(Tail(t)) ELSE t
RECURSIVE RStripChars(_)
RStripChars(t) ==
  IF t # << >> /\ t[Len(t)] = " " THEN RStripChars(SubSeq(t, 1, Len(t) - 1)) ELSE t
StripChars(t) == RStripChars(LStripChars(t))

LowerChar(c) ==
  CASE c = "T" -> "t" [] c = "B" -> "b" [] c = "D" -> "d" [] c = "N" -> "n"
    [] c = "A" -> "a" [] c = "U" -> "u" [] c = "K" -> "k" [] c = "O" -> "o"
    [] c = "W" -> "w" [] c = "P" -> "p" [] c = "R" -> "r" [] c = "S" -> "s"
    [] c = "E" -> "e" [] OTHER -> c
Lower(t) == [i \in 1..Len(t) |-> LowerChar(t[i])]

\* re.match(r"^\d{4}-\d{2}-\d{2}$", stripped).
IsoShape(t) ==
  /\ Len(t) = 10
  /\ \A i \in {1, 2, 3, 4, 6, 7, 9, 10} : IsDigit(t[i])
  /\ t[5] = "-" /\ t[8] = "-"

\* Line 249: the placeholder words of a task date.
TaskPlaceholders == {<<"t", "b", "d">>, <<"n", "/", "a">>,
                     <<"u", "n", "k", "n", "o", "w", "n">>}

\* A validator that returns the string as it was sent when its stripped
\* form has the date shape.
NormalizeUnstripped(v) ==
  IF ~Truthy(v) THEN Null
  ELSE IF v.t = "str" THEN
    LET stripped == StripChars(v.s)
    IN IF stripped = << >> \/ Lower(stripped) \in TaskPlaceholders THEN Null
       ELSE IF IsoShape(stripped) THEN Str(v.s)
       ELSE Null
  ELSE Null

\* Lines 243-253: GeneratedScheduleTask._normalize_optional_date.
NormalizeOptionalDate(v) ==
  IF ~Truthy(v) THEN Null
  ELSE IF v.t = "str" THEN
    LET stripped == StripChars(v.s)
    IN IF stripped = << >> \/ Lower(stripped) \in TaskPlaceholders THEN Null
       ELSE IF IsoShape(stripped) THEN Str(stripped)
       ELSE Null
  ELSE Null

\* Lines 194-209: GeneratedProjectDetails._normalize_date.
ProjectPlaceholders ==
  TaskPlaceholders \cup {<<"u", "n", "s", "p", "e", "c", "i", "f", "i", "e", "d">>}
NormalizeDate(v) ==
  IF v.t = "null" THEN Null
  ELSE IF v.t = "str" THEN
    LET stripped == StripChars(v.s)
    IN IF stripped = << >> THEN Null
       ELSE IF Lower(stripped) \in ProjectPlaceholders THEN Null
       ELSE IF IsoShape(stripped) THEN Str(stripped)
       ELSE Null
  ELSE Null

\* The two validators run on the value of a date field.
ValidateProjectDate ==
  /\ dateValue # NoDate /\ dateResult.project = NoDate
  /\ dateResult' = [dateResult EXCEPT !.project = NormalizeDate(dateValue)]
  /\ UNCHANGED <<embVars, reqVars, store, response, chatVars, genVars, dateValue, convVars,
                 crudVars, backendCall, graphVars>>
ValidateTaskDate ==
  /\ dateValue # NoDate /\ dateResult.task = NoDate
  /\ dateResult' = [dateResult EXCEPT !.task = NormalizeOptionalDate(dateValue)]
  /\ UNCHANGED <<embVars, reqVars, store, response, chatVars, genVars, dateValue, convVars,
                 crudVars, backendCall, graphVars>>

\* Lines 255-258: GeneratedScheduleTask._default_status, on null or a string.
DefaultStatus(v) ==
  LET candidate == IF Truthy(v) THEN Lower(StripChars(v.s)) ELSE << >>
  IN IF candidate # << >> THEN candidate ELSE <<"p", "r", "o", "p", "o", "s", "e", "d">>

\* GeneratedScheduleTask(**item), lines 230-258: ok is FALSE when the
\* constructor raises (no dict, no task_name, a blank task_name).
MakeTask(item) ==
  IF item.kind # "dict" \/ item.task_name.t # "str"
     \/ StripChars(item.task_name.s) = << >>
  THEN [ok |-> FALSE]
  ELSE [ok |-> TRUE,
        task_name |-> StripChars(item.task_name.s),
        start_date |-> NormalizeOptionalDate(item.start_date),
        end_date |-> NormalizeOptionalDate(item.end_date),
        status |-> DefaultStatus(item.status)]

\* Lines 261-272: GenerateTasksRequest._clamp_max_tasks.
MinTasks == 1
MaxTasksCap == 20
\* A clamp without the upper limit.
ClampLowOnly(value) == IF value < MinTasks THEN MinTasks ELSE value
ClampMaxTasks(value) ==
  IF value < MinTasks THEN MinTasks
  ELSE IF value > MaxTasksCap THEN MaxTasksCap
  ELSE value

\* datetime.fromisoformat on a string of the shape YYYY-MM-DD: the day
\* number, or 0 for the ValueError.
Num2(t, i) == 10 * DigitVal(t[i]) + DigitVal(t[i + 1])
YearOf(t) == 100 * Num2(t, 1) + Num2(t, 3)
IsLeap(y) == (y % 4 = 0 /\ y % 100 # 0) \/ y % 400 = 0
DaysIn(m, y) ==
  IF m = 2 THEN (IF IsLeap(y) THEN 29 ELSE 28)
  ELSE IF m \in {4, 6, 9, 11} THEN 30 ELSE 31
FromIsoFormat(t) ==
  LET y == YearOf(t)
      m == Num2(t, 6)
      d == Num2(t, 9)
  IN IF y >= 1 /\ m \in 1..12 /\ d >= 1 /\ d <= DaysIn(m, y)
     THEN (y * 12 + m) * 31 + d
     ELSE 0

\* Lines 1292-1315: one prepared row.
PrepareRow(task, project_id) ==
  LET both == Truthy(task.start_date) /\ Truthy(task.end_date)
      s == IF both THEN FromIsoFormat(task.start_date.s) ELSE 0
      e == IF both THEN FromIsoFormat(task.end_date.s) ELSE 0
      bad == both /\ (s = 0 \/ e = 0)
  IN [project_id |-> project_id,
      task_name |-> task.task_name,
      start_date |-> IF bad THEN Null ELSE task.start_date,
      end_date |-> IF bad \/ (both /\ e < s) THEN Null ELSE task.end_date,
      assigned_to |-> Null,
      status |-> "proposed"]

\* Lines 1280-1285: the first max_tasks items, the ones that construct.
RECURSIVE ValidTasks(_)
ValidTasks(items) ==
  IF items = << >> THEN << >>
  ELSE (IF MakeTask(Head(items)).ok THEN <<MakeTask(Head(items))>> ELSE << >>)
       \o ValidTasks(Tail(items))

TakeFirst(items, n) == SubSeq(items, 1, IF n < Len(items) THEN n ELSE Len(items))

\* Lines 1263-1290: the parsed payload's task list, or the 502 detail.
ParseTasks(t, tasks, max_tasks) ==
  LET ex == ExtractJsonBlock(CleanAiResponse(t))
      valid == IF tasks.list THEN ValidTasks(TakeFirst(tasks.items, max_tasks))
               ELSE << >>
  IN IF ~ex.ok THEN [ok |-> FALSE, detail |-> "parse_error", tasks |-> << >>]
     ELSE IF ex.value # <<"L", "A", "R">> \/ ~tasks.list
     THEN [ok |-> FALSE, detail |-> "no_tasks_list", tasks |-> << >>]
     ELSE IF valid = << >>
     THEN [ok |-> FALSE, detail |-> "no_valid_tasks", tasks |-> << >>]
     ELSE [ok |-> TRUE, detail |-> "ok", tasks |-> valid]

\* --------------------------- POST /documents/{filename}/generate-tasks
\* Lines 1146-1374.  requested is request.max_tasks as sent.
GenerateTasks(f, project_id, persist, requested) ==
  /\ genCount < MaxGenerations
  /\ genCount' = genCount + 1
  /\ \E lookupOk \in BOOLEAN :
       LET op == "generate_tasks" IN
       IF ~lookupOk THEN
         /\ genResponse' = GenError(op, 500, "project_lookup_error")
         /\ UNCHANGED <<chatVars, schedules>> /\ llmReturned' = FALSE
       ELSE IF project_id \notin 1..Len(projects) THEN
         /\ genResponse' = GenError(op, 404, "project_not_found")
         /\ UNCHANGED <<chatVars, schedules>> /\ llmReturned' = FALSE
       ELSE \E selectOk \in BOOLEAN, first \in FirstRows(f) :
         LET doc == GetDocument(f, selectOk, first)
             parsed == ParseTasks(llmText, llmTasks, ClampMaxTasks(requested))
             rows == [i \in 1..Len(parsed.tasks) |->
                        PrepareRow(parsed.tasks[i], project_id)]
         IN IF doc.status # 200 THEN
              /\ genResponse' = GenError(op, doc.status, doc.detail)
              /\ UNCHANGED <<chatVars, schedules>> /\ llmReturned' = FALSE
            ELSE IF doc.len = 0 THEN
              /\ genResponse' = GenError(op, 400, "no_text")
              /\ UNCHANGED <<chatVars, schedules>> /\ llmReturned' = FALSE
            ELSE \E env \in BackendEnvsNow :
              LET backend == EnsureChatBackend(env) IN
              /\ chat_llm' = backend.llm
              /\ chat_graph' = backend.graph
              /\ IF ~backend.ready THEN
                   /\ genResponse' = GenError(op, 503, "model_unavailable")
                   /\ UNCHANGED schedules /\ llmReturned' = FALSE
                 ELSE \E llmOk \in BOOLEAN :
                   IF ~llmOk THEN
                     /\ genResponse' = GenError(op, 500, "llm_error")
                     /\ UNCHANGED schedules /\ llmReturned' = FALSE
                   ELSE
                     /\ llmReturned' = TRUE
                     /\ IF ~parsed.ok THEN
                          /\ genResponse' = GenError(op, 502, parsed.detail)
                                              @@ [max_tasks |-> requested]
                          /\ UNCHANGED schedules
                        ELSE IF ~persist THEN
                          /\ genResponse' = [op |-> op, status |-> 200, detail |-> "ok",
                                             data |-> rows, persisted |-> FALSE,
                                             max_tasks |-> requested]
                          /\ UNCHANGED schedules
                        ELSE \E insertOk \in BOOLEAN :
                          IF ~insertOk THEN
                            /\ genResponse' = GenError(op, 500, "persist_error")
                            /\ UNCHANGED schedules
                          ELSE
                            /\ genResponse' = [op |-> op, status |-> 200, detail |-> "ok",
                                               data |-> rows, persisted |-> TRUE,
                                               max_tasks |-> requested]
                            /\ schedules' = schedules \o rows
  /\ UNCHANGED <<auxVars, embVars, reqVars, store, response, llmText, llmTasks, extraction,
                 projects>>

\* ------------------------------------------------- POST /chat/message
\* Conversation ids as sent.  Uuid1 stands for an id UUID() accepts
\* ("123e4567-e89b-12d3-a456-426614174000"); the others are no UUIDs.
Uuid1 == <<"u", "u", "i", "d", "1">>
Thread1 == <<"t", "1">>
Thread2 == <<"t", "2">>
\* A check every non-empty id passes.
AcceptsAnyId(value) == value # << >>

\* Lines 1655-1660: _is_valid_uuid.
IsValidUuid(value) == value = Uuid1

\* The replies: the model's answer, and the three texts of
\* build_fallback_response.
Answer == <<"answer">>
Apology == <<"apology">>
FallbackExcerpts == <<"fallback-mode", "excerpts">>
FallbackSerialized == <<"fallback-mode", "Error retrieving documents">>

\* A message of the graph, and a stored message.
Human(content) == [type |-> "human", content |-> content]
Ai(content) == [type |-> "ai", content |-> content]
ToolCall == [type |-> "ai", content |-> <<"tool_calls">>]
ToolMessage == [type |-> "tool", content |-> <<"retrieved">>]
MessageRow(id, type, content, index) ==
  [conversation_id |-> id, message_type |-> type, content |-> content,
   index_order |-> index]

\* .eq("conversation_id", id).order("index_order"): the rows of the
\* conversation by index_order, equal indices in creation order.
RECURSIVE OrderByIndex(_)
OrderByIndex(rows) ==
  IF rows = << >> THEN << >>
  ELSE LET r == rows[Len(rows)]
           sorted == OrderByIndex(SubSeq(rows, 1, Len(rows) - 1))
       IN SelectSeq(sorted, LAMBDA x : x.index_order <= r.index_order)
          \o <<r>>
          \o SelectSeq(sorted, LAMBDA x : x.index_order > r.index_order)
RowsOf(table, id) == SelectSeq(table, LAMBDA r : r.conversation_id = id)
DurableHistory(id) == OrderByIndex(RowsOf(chat_messages, id))

\* dict.get(id, []) and dict.setdefault(id, []).append(row).
MapGet(map, id) == IF id \in DOMAIN map THEN map[id] ELSE << >>
MapAppend(map, id, rows) ==
  [k \in DOMAIN map \cup {id} |->
     MapGet(map, k) \o (IF k = id THEN rows ELSE << >>)]

\* A replay that leaves the replies out.
ReplayWithoutReplies(rows) ==
  LET users == SelectSeq(rows, LAMBDA r : r.message_type = "user")
  IN [i \in 1..Len(users) |-> Human(users[i].content)]

\* Lines 1944-1953: the stored messages as graph messages.
Replay(rows) ==
  [i \in 1..Len(rows) |->
     IF rows[i].message_type = "user" THEN Human(rows[i].content)
     ELSE Ai(rows[i].content)]

\* Lines 1956-1995: the best-effort write of the user message to the durable
\* tables.  how: "ok", or the statement that raised ("check": the select of
\* the conversation, or its insert or update; "message": the insert of the
\* message).
UserWrites == {"ok", "check", "message"}
WriteUser(id, message, next_index, how) ==
  [conversations |->
     IF how \in {"ok", "message"} THEN chat_conversations \cup {id}
     ELSE chat_conversations,
   messages |->
     IF how = "ok"
     THEN Append(chat_messages, MessageRow(id, "user", message, next_index))
     ELSE chat_messages]

\* A fallback that has nothing to say without the embedding model.
FallbackOrNothing(embeddings_model, search) ==
  IF embeddings_model = 0 THEN << >>
  ELSE IF search = "docs" THEN FallbackExcerpts
  ELSE IF search = "raise" THEN FallbackSerialized
  ELSE Apology

\* Lines 1725-1764: build_fallback_response, given what get_embeddings()
\* returned and what the similarity search did ("docs", "nodocs", "raise":
\* retrieve_documents turns an exception into its error text and no docs).
SearchOutcomes == {"docs", "nodocs", "raise"}
BuildFallbackResponse(embeddings_model, search) ==
  IF embeddings_model = 0 THEN Apology
  ELSE IF search = "docs" THEN FallbackExcerpts
  ELSE IF search = "raise" THEN FallbackSerialized
  ELSE Apology

\* Requests: the body's message, conversation_id and thread_id (an absent
\* field and an empty one are the same to `or`).
ChatRequest(message, conversation_id, thread_id) ==
  [message |-> message, conversation_id |-> conversation_id, thread_id |-> thread_id]
ChatRequests ==
  { ChatRequest(<<"h", "i">>, Thread1, Thread2),
    ChatRequest(<<" ", "b", "y", "e">>, << >>, <<" ">> \o Thread2),
    ChatRequest(<<"h", "i">>, Uuid1, << >>),
    ChatRequest(<< >>, Thread1, << >>),
    ChatRequest(<<" ">>, Uuid1, << >>),
    ChatRequest(<<"h", "i">>, << >>, << >>),
    ChatRequest(<<"h", "i">>, <<" ">>, Thread2) }

\* What the compiled graph does with its input: "reply", a final answer;
\* "tool_reply", the same after a call of the retrieval tool; "empty", an
\* answer that is empty once cleaned; "raise".
GraphOutcomes == {"reply", "tool_reply", "empty", "raise"}
\* Lines 2044-2064: the write of the reply ("message": its insert raised).
AiWrites == {"ok", "message"}

\* A refusal that comes after ensure_chat_backend().
RejectChatLate(detail, message, id) ==
  /\ chatTurn' = [NoTurn EXCEPT !.status = 400, !.detail = detail,
                                !.message = message, !.id = id,
                                !.calls = {"ensure_chat_backend"}]
  /\ \E env \in BackendEnvsNow :
       /\ chat_llm' = EnsureChatBackend(env).llm
       /\ chat_graph' = EnsureChatBackend(env).graph
       /\ RecordBackendCall(env)
  /\ UNCHANGED <<embVars, ephemeral_chat_threads, chat_messages,
                 chat_conversations, checkpoints, faultyTurns>>

\* Lines 1896-1904: the request is refused.
RejectChat(detail, message, id) ==
  /\ chatTurn' = [NoTurn EXCEPT !.status = 400, !.detail = detail,
                                !.message = message, !.id = id]
  /\ UNCHANGED <<faultyTurns, backendCall>>
  /\ UNCHANGED <<embVars, chatVars, ephemeral_chat_threads, chat_messages,
                 chat_conversations, checkpoints>>

\* Lines 2009-2077: generation, fallback and the write of the reply, from
\* the state the write of the user message left (after).
AnswerChat(id, message, persist_messages, input, next_index, after, graph, calls, clean) ==
  \E out \in (IF graph THEN GraphOutcomes ELSE {"none"}), saved \in BOOLEAN :
    LET prior == MapGet(checkpoints, id)
        graphMessages == IF graph THEN prior \o input ELSE << >>
        tool == out = "tool_reply"
        produced == CASE out = "reply" -> <<Ai(Answer)>>
                      [] out = "tool_reply" -> <<ToolCall, ToolMessage, Ai(Answer)>>
                      [] out = "empty" -> <<Ai(<< >>)>>
                      [] OTHER -> << >>
        ai_response_text == IF out \in {"reply", "tool_reply"} THEN Answer ELSE << >>
        fallback == ai_response_text = << >>
    IN /\ (out # "raise" => saved)
       /\ checkpoints' =
            IF graph /\ saved THEN MapAppend(checkpoints, id, input \o produced)
            ELSE checkpoints
       /\ \E initOk \in BOOLEAN,
             search \in (IF fallback THEN SearchOutcomes ELSE {"nodocs"}) :
            LET r == GetEmbeddings(initOk)
                embCalled == tool \/ fallback
                searched == fallback /\ r.ret # 0
                reply == IF fallback THEN BuildFallbackResponse(r.ret, search)
                         ELSE ai_response_text
            IN /\ (~embCalled \/ embeddings # 0 \/ embeddings_init_failed) => initOk
               /\ (~searched => search = "nodocs")
               /\ IF embCalled THEN CallGetEmbeddings(r) ELSE UNCHANGED embVars
               /\ \E aiWrite \in (IF persist_messages THEN AiWrites ELSE {"ok"}) :
                    /\ LET faulty == ~(clean /\ out \notin {"empty", "raise"}
                                    /\ initOk /\ aiWrite = "ok")
                       IN /\ faulty => faultyTurns < MaxFaultyTurns
                          /\ faultyTurns' = faultyTurns + (IF faulty THEN 1 ELSE 0)
                    /\ IF persist_messages
                       THEN /\ chat_messages' =
                                 IF aiWrite = "message" THEN after.messages
                                 ELSE Append(after.messages,
                                             MessageRow(id, "ai", reply, next_index + 1))
                            /\ ephemeral_chat_threads' = after.map
                       ELSE /\ chat_messages' = after.messages
                            /\ ephemeral_chat_threads' =
                                 MapAppend(after.map, id,
                                           <<MessageRow(id, "ai", reply, next_index + 1)>>)
                    /\ chat_conversations' = after.conversations
                    /\ chatTurn' =
                         [status |-> 200, detail |-> "ok", message |-> message,
                          id |-> id, reply |-> reply,
                          search |-> IF searched THEN search ELSE "none",
                          graph |-> out,
                          input |-> input, graphMessages |-> graphMessages,
                          next_index |-> next_index,
                          calls |-> calls
                            \cup (IF graph THEN {"graph"} ELSE {})
                            \cup (IF embCalled THEN {"get_embeddings"} ELSE {})
                            \cup (IF searched THEN {"similarity_search"} ELSE {})
                            \cup (IF persist_messages THEN {"insert_message"}
                                  ELSE {"map_set"})]

\* Lines 1883-2096: send_chat_message.  The handler has no await: a request
\* runs from its first statement to its return without another in between.
SendChatMessage(req) ==
  /\ turnCount < MaxTurns
  /\ turnCount' = turnCount + 1
  /\ UNCHANGED <<reqVars, store, response, genVars, normVars, crudVars, graphVars>>
  /\ LET message == StripChars(req.message)
         conversation_id ==
           StripChars(IF req.conversation_id # << >> THEN req.conversation_id
                      ELSE req.thread_id)
         persist_messages == IsValidUuid(conversation_id)
     IN IF message = << >> THEN RejectChat("empty_message", message, conversation_id)
        ELSE IF conversation_id = << >> THEN RejectChat("id_required", message, conversation_id)
        ELSE \E env \in BackendEnvsNow :
          LET backend == EnsureChatBackend(env) IN
          /\ chat_llm' = backend.llm
          /\ chat_graph' = backend.graph
          /\ RecordBackendCall(env)
          /\ \E readOk \in (IF persist_messages /\ DurableHistory(conversation_id) # << >>
                           THEN BOOLEAN ELSE {TRUE}),
                how \in (IF persist_messages THEN UserWrites ELSE {"ok"}) :
               LET existing_messages ==
                     IF persist_messages
                     THEN (IF readOk THEN DurableHistory(conversation_id) ELSE << >>)
                     ELSE MapGet(ephemeral_chat_threads, conversation_id)
                   input == Replay(existing_messages) \o <<Human(message)>>
                   next_index == Len(existing_messages)
                   written == WriteUser(conversation_id, message, next_index, how)
                   after ==
                     IF persist_messages
                     THEN [messages |-> written.messages,
                           conversations |-> written.conversations,
                           map |-> ephemeral_chat_threads]
                     ELSE [messages |-> chat_messages,
                           conversations |-> chat_conversations,
                           map |-> MapAppend(ephemeral_chat_threads, conversation_id,
                                             <<MessageRow(conversation_id, "user",
                                                          message, next_index)>>)]
                   calls ==
                     {"ensure_chat_backend"}
                     \cup (IF persist_messages
                           THEN {"select_messages", "select_conversation"}
                                \cup (IF how # "check" THEN {"write_conversation"} ELSE {})
                                \cup (IF how = "ok" THEN {"insert_message"} ELSE {})
                           ELSE {"map_get", "map_set"})
               IN AnswerChat(conversation_id, message, persist_messages, input,
                             next_index, after, backend.graph, calls,
                             BackendAvailable(env) /\ readOk /\ how = "ok")

ParseDocument ==
  \/ \E f \in Filenames, u \in UploadIds : Receive(f, u)
  \/ \E initOk \in BOOLEAN : Validate(initOk)
  \/ \E created \in BOOLEAN : OpenTemp(created)
  \/ \E ok \in BOOLEAN : ReadWrite(ok)
  \/ \E loadOk \in BOOLEAN, unlinkOk \in BOOLEAN : Extract(loadOk, unlinkOk)
  \/ \E unlinkOk \in BOOLEAN : Chunk(unlinkOk)
  \/ Annotate
  \/ \E unlinkOk \in BOOLEAN, retryOk \in BOOLEAN : Cleanup(unlinkOk, retryOk)
  \/ \E insertOk \in BOOLEAN : Store(insertOk)

Next ==
  \/ ParseDocument
  \/ \E f \in DeleteNames, s \in BOOLEAN, d \in BOOLEAN : DeleteDocument(f, s, d)

Spec == Init /\ [][Next]_vars

\* ------------------------------------------- extraction on bounded texts
\* Pieces of model output, and the texts made of at most n of them.
Snippets ==
  { <<"P">>, <<"L", "A", "R">>, <<"L", "B", "R">>,
    <<"F", "J", "N", "L", "A", "R", "N", "F">>,
    <<"F", "L", "K", "L", "B", "R", "R", "F">>,
    <<"F", "L", "P", "R", "F">>, <<"F", "P", "F">>,
    <<"L">>, <<"R">>, <<"F">> }

RECURSIVE TextsOf(_)
TextsOf(n) ==
  IF n = 0 THEN {<< >>}
  ELSE TextsOf(n - 1) \cup {t \o p : t \in TextsOf(n - 1), p \in Snippets}

\* Line 1097 / 1265: extract_json_block applied to a text.
ExtractStep ==
  /\ extraction = NotExtracted
  /\ extraction' = ExtractJsonBlock(llmText)
  /\ UNCHANGED <<auxVars, embVars, reqVars, store, response, chatVars, llmText, llmTasks,
                 genCount, llmReturned, genResponse, projects, schedules>>

InitExtract ==
  /\ InitNoUpload
  /\ InitChat
  /\ InitAuxIdle
  /\ llmText \in TextsOf(MaxPieces)
  /\ llmTasks = [list |-> FALSE, items |-> << >>]
  /\ extraction = NotExtracted
  /\ genCount = 0
  /\ llmReturned = FALSE
  /\ genResponse = NoGenResponse
  /\ projects = << >>
  /\ schedules = << >>

NextExtract == ExtractStep

SpecExtract == InitExtract /\ [][NextExtract]_vars

\* ------------------------------------------------- generation requests
\* Model outputs the generators are run on.
LlmOutputs ==
  { << >>,
    <<"P">>,
    <<"P", "F", "J", "N", "L", "A", "R", "N", "F", "W", "P">>,
    <<"L", "A", "R">>,
    <<"L", "B", "R">>,
    <<"L", "P", "R">>,
    <<"L", "A", "R", "P", "L", "B", "R">>,
    <<"T", "P", "E", "N", "L", "A", "R">>,
    <<"F", "L", "P", "R", "F">> }

\* Values of "tasks" in a model output.
Date_0110 == <<"2", "0", "2", "4", "-", "0", "1", "-", "1", "0">>
Date_0305 == <<"2", "0", "2", "4", "-", "0", "3", "-", "0", "5">>
Date_1340 == <<"2", "0", "2", "4", "-", "1", "3", "-", "4", "0">>
TaskItem(name, start, end, status) ==
  [kind |-> "dict", task_name |-> name, start_date |-> start, end_date |-> end,
   status |-> status]
TaskLists ==
  { [list |-> FALSE, items |-> << >>],
    [list |-> TRUE,
     items |-> << TaskItem(Str(<<"P", "o", "u", "r">>), Str(Date_0110), Str(Date_0305),
                           Str(<<"D", "o", "n", "e">>)),
                  TaskItem(Str(<<" ">>), Null, Null, Null),
                  TaskItem(Str(<<"D", "i", "g">>), Str(<<"T", "B", "D">>), Null, Null) >>],
    [list |-> TRUE,
     items |-> << TaskItem(Str(<<"R", "o", "o", "f">>), Str(Date_0305), Str(Date_0110), Null),
                  TaskItem(Str(<<"F", "i", "t">>), Str(Date_1340), Str(Date_0110), Null) >>],
    [list |-> TRUE,
     items |-> [i \in 1..(MaxTasksCap + 2) |->
                  TaskItem(IF i = 2 THEN Str(<< >>) ELSE Str(<<"T">>), Null, Null,
                           IF i = 1 THEN Str(<<"D", "o", "n", "e">>) ELSE Null)]] }

\* Values of request.max_tasks and request.project_id.
RequestedMax == {0, 2, 25}
ProjectIds == {1, 2}

\* The state after a.pdf (one page of 400 characters) was ingested.
IngestedRow ==
  [filename |-> "a.pdf", upload_timestamp |-> 1, file_size |-> Uploads[3].size,
   page_count |-> 1, chunk_index |-> 0, total_chunks |-> 1,
   full_document_text |-> 3, content |-> 400]
InitIngested ==
  /\ embeddings = 1
  /\ embeddings_init_failed = FALSE
  /\ initAttempts = 1
  /\ embCalls = 1
  /\ embReturn = 1
  /\ pc = "done"
  /\ filename = "a.pdf"
  /\ upload = 3
  /\ temp_file_path = FALSE
  /\ tempExists = FALSE
  /\ unlinkFailed = FALSE
  /\ stages = <<"validated", "extracted", "chunked", "annotated", "stored">>
  /\ docs = <<IngestedRow>>
  /\ outcome = Summary(1)
  /\ clock = 1
  /\ store = {IngestedRow}
  /\ response = [op |-> "none", status |-> 0, arg |-> "", count |-> 0]

InitGen ==
  /\ InitIngested
  /\ InitChat
  /\ InitAuxIdle
  /\ llmText \in LlmOutputs
  /\ llmTasks \in TaskLists
  /\ extraction = NotExtracted
  /\ genCount = 0
  /\ llmReturned = FALSE
  /\ genResponse = NoGenResponse
  /\ projects = << >>
  /\ schedules = << >>

NextGen ==
  \/ \E insertOk \in BOOLEAN : CreateProject(insertOk)
  \/ \E f \in GenNames, persist \in BOOLEAN : GenerateProject(f, persist)
  \/ \E f \in GenNames, id \in ProjectIds, persist \in BOOLEAN,
        requested \in RequestedMax :
       GenerateTasks(f, id, persist, requested)

SpecGen == InitGen /\ [][NextGen]_vars

\* ------------------------------------------------------- chat requests
InitChatting ==
  /\ InitNoUpload
  /\ InitChat
  /\ InitGenIdle
  /\ InitAuxIdle

NextChat == \E req \in ChatRequests : SendChatMessage(req)

SpecChat == InitChatting /\ [][NextChat]_vars

\* ------------------------------------------------- date validators
\* Values of a date field: the JSON values that are no string, and the
\* strings made of at most MaxDateParts parts.
DateParts ==
  { <<"2", "0", "2", "4">>, <<"-", "0", "1">>, <<"-", "4", "0">>, <<" ">>,
    <<"T", "B", "D">>, <<"-", "1", "3">> }
RECURSIVE DateTexts(_)
DateTexts(n) ==
  IF n = 0 THEN { << >> }
  ELSE DateTexts(n - 1) \cup {t \o p : t \in DateTexts(n - 1), p \in DateParts}
DateValues ==
  {Null, Num(0), Num(20240110), Bool(FALSE), Bool(TRUE), List(0), List(2),
   Str(<<"n", "/", "a">>), Str(<<"U", "n", "k", "n", "o", "w", "n">>),
   Str(<<"u", "n", "s", "p", "e", "c", "i", "f", "i", "e", "d">>),
   Str(<<"0", "1", "/", "1", "0", "/", "2", "0", "2", "4">>)}
  \cup {Str(t) : t \in DateTexts(MaxDateParts)}

InitDates ==
  /\ InitNoUpload
  /\ InitChat
  /\ InitGenIdle
  /\ InitConvIdle
  /\ InitCrudIdle
  /\ InitBackendIdle
  /\ InitGraphIdle
  /\ dateValue \in DateValues
  /\ dateResult = [project |-> NoDate, task |-> NoDate]

NextDates ==
  \/ ValidateProjectDate
  \/ ValidateTaskDate

SpecDates == InitDates /\ [][NextDates]_vars

\* ------------------------------------------- the chat graph, node by node
\* What the model answers to the entry node (bound to the retrieval tool)
\* and to the generate node: a text, an empty text, a request of the tool,
\* or an exception of the invocation.
EntryAnswers == {"text", "empty", "tool_calls", "raise"}
GenerateAnswers == {"text", "empty", "tool_calls", "raise"}
NotAvailable == "not_available"

\* A conditional edge that always goes to the retrieval node.
ToolsAlways(last) == "tools"

\* Lines 1639-1643: tools_condition on the entry node's output.
ToolsCondition(last) == IF last = "tool_calls" THEN "tools" ELSE "END"

GraphIdle == graphRun.pc \in {"idle", "END", "raised"}
GraphOther == <<reqVars, store, response, genVars, normVars, convVars, crudVars>>

\* Line 1912: a request calls ensure_chat_backend().
EnsureBackendCall(env) ==
  /\ GraphIdle
  /\ backendCall.calls < MaxGraphRuns
  /\ chat_llm' = EnsureChatBackend(env).llm
  /\ chat_graph' = EnsureChatBackend(env).graph
  /\ RecordBackendCall(env)
  /\ UNCHANGED <<embVars, graphVars, GraphOther>>

\* Lines 2013-2019: the request invokes the graph when it exists; the run
\* starts at the entry point (line 1638).
StartGraph ==
  /\ GraphIdle
  /\ chat_graph
  /\ graphRuns < MaxGraphRuns
  /\ graphRuns' = graphRuns + 1
  /\ graphRun' = [NoGraphRun EXCEPT !.pc = "query_or_respond", !.last = "human"]
  /\ UNCHANGED <<embVars, chatVars, backendCall, GraphOther>>

\* Lines 1527-1534: the entry node, followed by the conditional edge.
QueryOrRespond(answer) ==
  /\ graphRun.pc = "query_or_respond"
  /\ LET visited == Append(graphRun.visited, "query_or_respond")
     IN graphRun' =
          IF chat_llm = "none"
          THEN [graphRun EXCEPT !.visited = visited, !.last = NotAvailable,
                                !.unavailable = TRUE,
                                !.pc = ToolsCondition(NotAvailable)]
          ELSE IF answer = "raise"
          THEN [graphRun EXCEPT !.visited = visited, !.pc = "raised",
                                !.invocations = @ + 1]
          ELSE [graphRun EXCEPT !.visited = visited, !.last = answer,
                                !.invocations = @ + 1,
                                !.pc = ToolsCondition(answer)]
  /\ UNCHANGED <<embVars, chatVars, backendCall, graphRuns, GraphOther>>

\* Lines 1498-1523 under ToolNode (line 1634): retrieve_documents answers with
\* a text in every case, and the edge of line 1644 leads to generate.
Tools(initOk, search) ==
  /\ graphRun.pc = "tools"
  /\ LET r == GetEmbeddings(initOk)
     IN /\ CallGetEmbeddings(r)
        /\ (r.ret = 0 => search = "nodocs")
        /\ graphRun' =
             [graphRun EXCEPT !.visited = Append(@, "tools"), !.last = "tool",
                              !.pc = "generate",
                              !.tool = IF r.ret = 0 THEN "not_available" ELSE search]
  /\ UNCHANGED <<chatVars, backendCall, graphRuns, GraphOther>>

\* Lines 1537-1581: the generate node, followed by the edge to END.
GenerateResponse(answer) ==
  /\ graphRun.pc = "generate"
  /\ LET visited == Append(graphRun.visited, "generate")
     IN graphRun' =
          IF chat_llm = "none"
          THEN [graphRun EXCEPT !.visited = visited, !.last = NotAvailable,
                                !.unavailable = TRUE, !.pc = "END"]
          ELSE IF answer = "raise"
          THEN [graphRun EXCEPT !.visited = visited, !.pc = "raised",
                                !.invocations = @ + 1]
          ELSE [graphRun EXCEPT !.visited = visited, !.last = answer,
                                !.invocations = @ + 1, !.pc = "END"]
  /\ UNCHANGED <<embVars, chatVars, backendCall, graphRuns, GraphOther>>

InitGraph ==
  /\ InitNoUpload
  /\ InitChat
  /\ InitGenIdle
  /\ InitAuxIdle

GraphStep ==
  \/ \E answer \in EntryAnswers : QueryOrRespond(answer)
  \/ \E initOk \in BOOLEAN, search \in SearchOutcomes : Tools(initOk, search)
  \/ \E answer \in GenerateAnswers : GenerateResponse(answer)

NextGraph ==
  \/ \E env \in BackendEnvsNow : EnsureBackendCall(env)
  \/ StartGraph
  \/ GraphStep

SpecGraph == InitGraph /\ [][NextGraph]_vars

\* A node that was reached runs: the graph is a synchronous pipeline and an
\* invocation of the model or of the tool returns or raises.
SpecGraphFair == SpecGraph /\ WF_vars(GraphStep)

\* ------------------------- projects, subcontractors, budgets by id
\* The three resources, the name each handler puts in its 404 detail, and
\* the bodies a request carries (the fields of the row other than its id).
Resources == {"projects", "subcontractors", "budgets"}
ResourceName(resource) ==
  CASE resource = "projects" -> "Project"
    [] resource = "subcontractors" -> "Subcontractor"
    [] OTHER -> "Budget"
NotFound(resource) == <<ResourceName(resource), "not found">>
Bodies(resource) ==
  CASE resource = "projects" ->
         {[name |-> <<"P">>, status |-> "active"], [name |-> <<"Q">>, status |-> "planning"]}
    [] resource = "subcontractors" ->
         {[name |-> <<"J">>, specialty |-> "Electrical"],
          [name |-> <<"K">>, specialty |-> "Plumbing"]}
    [] OTHER ->
         {[project_id |-> 1, category |-> "Labor"],
          [project_id |-> 1, category |-> "Materials"]}
\* The ids requests carry: with one row or none in a table, 2 matches none.
CrudIds == {1, 2}

\* A table keeps its rows in the order of their ids: row i has id i.
Table(resource) ==
  CASE resource = "projects" -> projects
    [] resource = "subcontractors" -> subcontractors
    [] OTHER -> budgets
SetTable(resource, rows) ==
  /\ projects' = IF resource = "projects" THEN rows ELSE projects
  /\ subcontractors' = IF resource = "subcontractors" THEN rows ELSE subcontractors
  /\ budgets' = IF resource = "budgets" THEN rows ELSE budgets
\* result.data of a request filtered with .eq("id", id).
Matching(rows, id) == IF id \in 1..Len(rows) THEN <<rows[id]>> ELSE << >>

CrudAnswer(op, resource, id, status, detail, data) ==
  [op |-> op, resource |-> resource, id |-> id, status |-> status,
   detail |-> detail, data |-> data]
CrudOther == <<embVars, reqVars, store, response, chatVars, llmText, llmTasks, extraction,
               genCount, llmReturned, genResponse, schedules, normVars, convVars,
               backendCall, graphVars>>

\* POST /subcontractors and POST /budgets (lines 499-511, 730-742).
CreateRow(resource, body, insertOk) ==
  /\ crudCount < MaxCrudRequests
  /\ crudCount' = crudCount + 1
  /\ IF insertOk
     THEN /\ SetTable(resource, Append(Table(resource), body))
          /\ crudResponse' = CrudAnswer("post", resource, Len(Table(resource)) + 1,
                                        200, <<"ok">>, <<body>>)
     ELSE /\ SetTable(resource, Table(resource))
          /\ crudResponse' = CrudAnswer("post", resource, 0, 500, <<"error">>, << >>)
  /\ UNCHANGED CrudOther

\* GET /<resource>/{id} (lines 388-400, 514-531, 745-757).
GetById(resource, id, selectOk) ==
  /\ crudCount < MaxCrudRequests
  /\ crudCount' = crudCount + 1
  /\ LET data == Matching(Table(resource), id)
     IN crudResponse' =
          IF ~selectOk THEN CrudAnswer("get", resource, id, 500, <<"error">>, << >>)
          ELSE IF data = << >>
          THEN CrudAnswer("get", resource, id, 404, NotFound(resource), << >>)
          ELSE CrudAnswer("get", resource, id, 200, <<"ok">>, data)
  /\ SetTable(resource, Table(resource))
  /\ UNCHANGED CrudOther

\* An update that inserts the row when the id matches none.
UpsertById(resource, id, body, updateOk) ==
  /\ crudCount < MaxCrudRequests
  /\ crudCount' = crudCount + 1
  /\ LET rows == Table(resource)
         written == IF id \in 1..Len(rows) THEN [rows EXCEPT ![id] = body]
                    ELSE Append(rows, body)
     IN /\ SetTable(resource, written)
        /\ crudResponse' = CrudAnswer("put", resource, id, 200, <<"ok">>, <<body>>)
  /\ UNCHANGED CrudOther

\* PUT /<resource>/{id} (lines 403-420, 534-553, 760-777).  When execute()
\* raises, the rows may or may not have been written.
UpdateById(resource, id, body, updateOk) ==
  /\ crudCount < MaxCrudRequests
  /\ crudCount' = crudCount + 1
  /\ LET rows == Table(resource)
         data == IF Matching(rows, id) = << >> THEN << >> ELSE <<body>>
         written == IF data = << >> THEN rows ELSE [rows EXCEPT ![id] = body]
     IN IF updateOk
        THEN /\ SetTable(resource, written)
             /\ crudResponse' =
                  IF data = << >>
                  THEN CrudAnswer("put", resource, id, 404, NotFound(resource), << >>)
                  ELSE CrudAnswer("put", resource, id, 200, <<"ok">>, data)
        ELSE /\ \E applied \in BOOLEAN :
                  SetTable(resource, IF applied THEN written ELSE rows)
             /\ crudResponse' = CrudAnswer("put", resource, id, 500, <<"error">>, << >>)
  /\ UNCHANGED CrudOther

\* ------------------------------------------------- schedules by id
\* The bodies of schedule requests, and what str() makes of the
\* HTTPException(404, "Schedule not found") that the generic except clause
\* of the two handlers catches.
ScheduleBodies ==
  {[project_id |-> 1, task_name |-> <<"T">>, status |-> "pending"],
   [project_id |-> 1, task_name |-> <<"U">>, status |-> "done"]}
ScheduleNotFoundText == <<"404:", "Schedule", "not found">>
ScheduleOther == <<embVars, reqVars, store, response, chatVars, llmText, llmTasks,
                   extraction, genCount, llmReturned, genResponse, projects,
                   subcontractors, budgets, normVars, convVars, backendCall, graphVars>>

\* POST /schedules (lines 627-639).
CreateSchedule(body, insertOk) ==
  /\ crudCount < MaxCrudRequests
  /\ crudCount' = crudCount + 1
  /\ IF insertOk
     THEN /\ schedules' = Append(schedules, body)
          /\ crudResponse' = CrudAnswer("post", "schedules", Len(schedules) + 1,
                                        200, <<"ok">>, <<body>>)
     ELSE /\ UNCHANGED schedules
          /\ crudResponse' = CrudAnswer("post", "schedules", 0, 500, <<"error">>, << >>)
  /\ UNCHANGED ScheduleOther

\* GET /schedules/{id} (lines 642-657): the 404 is raised inside the try
\* block, and `except Exception` is the only clause.
GetSchedule(id, selectOk) ==
  /\ crudCount < MaxCrudRequests
  /\ crudCount' = crudCount + 1
  /\ LET data == Matching(schedules, id)
     IN crudResponse' =
          IF ~selectOk THEN CrudAnswer("get", "schedules", id, 500, <<"error">>, << >>)
          ELSE IF data = << >>
          THEN CrudAnswer("get", "schedules", id, 500, ScheduleNotFoundText, << >>)
          ELSE CrudAnswer("get", "schedules", id, 200, <<"ok">>, data)
  /\ UNCHANGED schedules
  /\ UNCHANGED ScheduleOther

\* PUT /schedules/{id} (lines 660-677), with the same except clause.
UpdateSchedule(id, body, updateOk) ==
  /\ crudCount < MaxCrudRequests
  /\ crudCount' = crudCount + 1
  /\ LET data == IF Matching(schedules, id) = << >> THEN << >> ELSE <<body>>
         written == IF data = << >> THEN schedules ELSE [schedules EXCEPT ![id] = body]
     IN IF updateOk
        THEN /\ schedules' = written
             /\ crudResponse' =
                  IF data = << >>
                  THEN CrudAnswer("put", "schedules", id, 500, ScheduleNotFoundText, << >>)
                  ELSE CrudAnswer("put", "schedules", id, 200, <<"ok">>, data)
        ELSE /\ \E applied \in BOOLEAN :
                  schedules' = IF applied THEN written ELSE schedules
             /\ crudResponse' = CrudAnswer("put", "schedules", id, 500, <<"error">>, << >>)
  /\ UNCHANGED ScheduleOther

InitCrud ==
  /\ InitNoUpload
  /\ InitChat
  /\ InitGenIdle
  /\ InitAuxIdle

NextCrud ==
  \/ \E insertOk \in BOOLEAN : CreateProject(insertOk)
  \/ \E resource \in Resources \ {"projects"}, insertOk \in BOOLEAN :
       \E body \in Bodies(resource) : CreateRow(resource, body, insertOk)
  \/ \E resource \in Resources, id \in CrudIds, selectOk \in BOOLEAN :
       GetById(resource, id, selectOk)
  \/ \E resource \in Resources, id \in CrudIds, updateOk \in BOOLEAN :
       \E body \in Bodies(resource) : UpdateById(resource, id, body, updateOk)
  \/ \E body \in ScheduleBodies, insertOk \in BOOLEAN : CreateSchedule(body, insertOk)
  \/ \E id \in CrudIds, selectOk \in BOOLEAN : GetSchedule(id, selectOk)
  \/ \E id \in CrudIds, body \in ScheduleBodies, updateOk \in BOOLEAN :
       UpdateSchedule(id, body, updateOk)

SpecCrud == InitCrud /\ [][NextCrud]_vars

\* ------------------------------------------------------------ properties
Range(s) == {s[i] : i \in 1..Len(s)}
IsPrefix(s, t) == Len(s) <= Len(t) /\ \A i \in 1..Len(s) : s[i] = t[i]
StageOrder == <<"validated", "extracted", "chunked", "annotated", "stored">>

\* C1: the embedding provider is one-shot.  The model is constructed at most
\* once; once the construction failed, the flag stays set, nothing is
\* constructed again and every call returns None; once it succeeded, the
\* instance never changes and every call returns that instance.
C1_Step ==
  /\ embeddings_init_failed =>
       /\ embeddings_init_failed' /\ embeddings' = 0
       /\ initAttempts' = initAttempts
       /\ (embCalls' # embCalls => embReturn' = 0)
  /\ embeddings # 0 =>
       /\ embeddings' = embeddings /\ ~embeddings_init_failed'
       /\ initAttempts' = initAttempts
       /\ (embCalls' # embCalls => embReturn' = embeddings)
C1_EmbeddingOneShot == [](initAttempts <= 1) /\ [][C1_Step]_vars

\* A second get_embeddings() call was answered None after a failed construction.
C1_Witness ==
  embeddings_init_failed /\ embCalls >= 2 /\ embReturn = 0 /\ initAttempts = 1

\* C2: when a /parse-document request has completed, on whatever exit path,
\* the temporary file it created no longer exists.
C2_NoTempFileAtCompletion == pc = "done" => ~tempExists

\* C3: a failing removal of the temporary file does not end the request: a
\* request whose annotation is complete always goes on to the storage step.
C3_CleanupFailureAbsorbed == [][pc = "annotated" => pc' = "cleaned"]_vars

\* C4: a request with a missing or non-.pdf filename ends at once in the 400
\* error, and that step touches neither the embedding provider, nor the
\* disk, nor the documents table; no stage has run when it is done.
C4_Step ==
  (pc = "received" /\ (filename = "" \/ ~EndsWithPdf(filename))) =>
    /\ pc' = "done"
    /\ outcome' = HttpError(400, "only_pdf")
    /\ UNCHANGED <<embVars, tempExists, temp_file_path, store>>
C4_InvalidNameNoSideEffect ==
  /\ []((pc = "done" /\ (filename = "" \/ ~EndsWithPdf(filename))) =>
          (outcome.status = 400 /\ stages = << >> /\ ~tempExists))
  /\ [][C4_Step]_vars

\* A request for notes.txt was rejected.
C4_Witness == pc = "done" /\ filename = "notes.txt" /\ outcome.status = 400

\* C5: the outcome of a request refused because the embedding provider is
\* unavailable has a status other than the one of storage failures and
\* unexpected errors, and no temporary file was created for it.
C5_ServiceUnavailableDistinct ==
  (pc = "done" /\ outcome.detail = "embeddings_unavailable") =>
    (outcome.status # UnexpectedError.status /\ ~tempExists /\ stages = << >>)

\* C6: the stages run in the order validation, extraction, chunking,
\* annotation, storage; a summary is returned only by the step that stored
\* the chunks; a step that ends the request in an error stores nothing, and
\* a finished request runs no further stage.
C6_Step ==
  /\ (pc' = "done" /\ pc # "done" /\ outcome'.kind = "summary") =>
       /\ pc = "cleaned" /\ stages' = StageOrder
       /\ Range(docs) \subseteq store'
  /\ (pc' = "done" /\ pc # "done" /\ outcome'.kind = "error") =>
       /\ store' = store /\ stages' = stages /\ "stored" \notin Range(stages)
  /\ (~(store' \subseteq store)) => (pc = "cleaned" /\ outcome'.kind = "summary")
  /\ (pc = "done" /\ pc' = "done") => (stages' = stages /\ outcome' = outcome)
C6_StagesInOrder ==
  /\ [](/\ IsPrefix(stages, StageOrder)
        /\ (pc = "done" => outcome.kind \in {"summary", "error"})
        /\ (outcome.kind = "summary" <=> "stored" \in Range(stages)))
  /\ [][C6_Step]_vars

\* A request went through every stage and returned its summary.
C6_Witness == pc = "done" /\ outcome.kind = "summary" /\ stages = StageOrder

\* C7: the number of chunks of a document whose full text has L >= 1
\* characters is ceil((L - 100) / 900) when L > 1000 and 1 otherwise.
ExpectedChunks(L) ==
  IF L > ChunkSize
  THEN ((L - ChunkOverlap) + (ChunkSize - ChunkOverlap) - 1) \div (ChunkSize - ChunkOverlap)
  ELSE 1
C7_ChunkCountFormula ==
  (pc \in {"chunked", "annotated", "cleaned"} \/ (pc = "done" /\ outcome.kind = "summary")) =>
    Len(docs) = ExpectedChunks(FullTextLen(Uploads[upload].pages))

\* C8: a step that removes rows is a successful delete of some filename f and
\* removes exactly the rows of f, whatever their upload_timestamp, leaving
\* the rows of the other filenames; a step that adds rows is the storage
\* step of an ingestion and removes or replaces nothing.
C8_Step ==
  /\ (~(store \subseteq store')) =>
       \E f \in DeleteNames :
         /\ response' = [op |-> "delete", status |-> 200, arg |-> f,
                          count |-> Cardinality({r \in store : r.filename = f})]
         /\ store' = {r \in store : r.filename # f}
         /\ UNCHANGED reqVars
  /\ (~(store' \subseteq store)) =>
       /\ store \subseteq store'
       /\ store' \ store = Range(docs)
       /\ \A r \in store' \ store :
            r.filename = filename /\ r.upload_timestamp = clock
C8_DeleteByFilename == [][C8_Step]_vars

\* A delete of a.pdf removed three rows, more than one upload of the model
\* stores: the groups of two uploads of a.pdf went in one delete.
C8_Witness ==
  /\ response.op = "delete" /\ response.status = 200 /\ response.arg = "a.pdf"
  /\ response.count = 3
  /\ \A r \in store : r.filename # "a.pdf"

\* Fences pair up from the left: the first opens a block, the second closes
\* it, the third opens the next one.  The fenced blocks of a text that hold
\* a JSON object, as <<first, last>> of the object: an opening fence, an
\* optional json tag, whitespace, the object, whitespace, the closing fence.
FenceRank(t, i) == Cardinality({j \in 1..i : t[j] = "F"})
FencedObjects(t) ==
  {b \in (1..Len(t)) \X (1..Len(t)) :
     /\ b[1] <= b[2]
     /\ IsJsonObject(NoSpace(SubSeq(t, b[1], b[2])))
     /\ t[b[1]] = "L"
     /\ \E i \in 1..Len(t) :
          /\ t[i] = "F" /\ FenceRank(t, i) % 2 = 1
          /\ b[1] = SkipSpace(t, IF i + 1 <= Len(t) /\ t[i + 1] = "J" THEN i + 2 ELSE i + 1)
          /\ \A j \in (i + 1)..b[2] : t[j] # "F"
     /\ SkipSpace(t, b[2] + 1) <= Len(t)
     /\ t[SkipSpace(t, b[2] + 1)] = "F"}

\* C9: when the text has a fenced block holding a JSON object, the result is
\* the object of such a block, and the bare-brace search gives the candidate
\* only when the text has no such block.
C9_FencedBlockPreferred ==
  (extraction # NotExtracted) =>
    /\ FencedObjects(llmText) # {} =>
         /\ extraction.ok
         /\ \E b \in FencedObjects(llmText) :
              extraction.value = NoSpace(SubSeq(llmText, b[1], b[2]))
    /\ extraction.via = "brace" => FencedObjects(llmText) = {}

\* The candidate span of a cleaned model output: the fenced span when the
\* fence pattern matches, else the bare-brace span, else none.
C10_Candidate(c) ==
  IF c = << >> THEN <<0, 0>>
  ELSE IF FenceSearch(c) # <<0, 0>> THEN FenceSearch(c) ELSE BraceSearch(c)
C10_NoParse(t) ==
  LET c == CleanAiResponse(t)
      cand == C10_Candidate(c)
  IN \/ cand = <<0, 0>>
     \/ ~IsJsonObject(NoSpace(SubSeq(c, cand[1], cand[2])))

\* C10: when the model output holds no JSON candidate or its candidate does
\* not parse, the extraction fails, and a brief or task generation request
\* that received this output ends in the 502 parse error: it returns no
\* generated data and leaves the projects and schedules tables as they were.
C10_Step ==
  ( /\ genCount' = genCount + 1
    /\ genResponse'.op \in {"generate_project", "generate_tasks"}
    /\ llmReturned'
    /\ C10_NoParse(llmText) )
  => /\ ~ExtractJsonBlock(CleanAiResponse(llmText)).ok
     /\ genResponse'.status = 502
     /\ genResponse'.detail = "parse_error"
     /\ genResponse'.data = << >>
     /\ ~genResponse'.persisted
     /\ projects' = projects
     /\ schedules' = schedules
C10_ParseFailureIsFatal == [][C10_Step]_vars

\* A task generation for an existing project whose model output could not be
\* parsed.
C10_Witness ==
  /\ genResponse.op = "generate_tasks" /\ genResponse.status = 502
  /\ genResponse.detail = "parse_error"
  /\ llmReturned /\ C10_NoParse(llmText)
  /\ Len(projects) >= 1 /\ schedules = << >>

\* A task whose two dates both parse and whose end is before its start.
C11_Reversed(task) ==
  /\ Truthy(task.start_date) /\ Truthy(task.end_date)
  /\ FromIsoFormat(task.start_date.s) # 0
  /\ FromIsoFormat(task.end_date.s) # 0
  /\ FromIsoFormat(task.end_date.s) < FromIsoFormat(task.start_date.s)

\* C11: in the rows a successful task generation returns (the rows it
\* inserts when persisting), a task whose dates both parse with the end
\* before the start has start_date and end_date both null.
C11_ReversedDatesBothNull ==
  (genResponse.op = "generate_tasks" /\ genResponse.status = 200) =>
    LET v == ValidTasks(llmTasks.items)
    IN \A i \in 1..Len(genResponse.data) :
         C11_Reversed(v[i]) =>
           /\ genResponse.data[i].start_date = Null
           /\ genResponse.data[i].end_date = Null

\* What a date validator is to return for a value: the stripped string when
\* it is four digits, dash, two digits, dash, two digits; null otherwise.
C12_Expected(v) ==
  IF v.t = "str" /\ IsoShape(StripChars(v.s)) THEN Str(StripChars(v.s)) ELSE Null

\* C12: the date validators of GeneratedProjectDetails and of
\* GeneratedScheduleTask return, for every value, the stripped string when
\* it has the date shape (whatever the month and day) and null otherwise.
C12_DateNormalizers ==
  /\ dateResult.project # NoDate => dateResult.project = C12_Expected(dateValue)
  /\ dateResult.task # NoDate => dateResult.task = C12_Expected(dateValue)

\* Month 13, day 40, sent with a leading blank, came back stripped from both
\* validators.
C12_Witness ==
  /\ dateValue = Str(<<" ">> \o Date_1340)
  /\ dateResult.project = Str(Date_1340)
  /\ dateResult.task = Str(Date_1340)

\* The collaborator calls that read or write the durable chat tables, and
\* the ones that read or write the in-process map.
DurableCalls == {"select_messages", "select_conversation", "write_conversation",
                 "insert_message"}
MapCalls == {"map_get", "map_set"}
\* The ids of the requests that are UUIDs.
C13_Uuids == {Uuid1}

\* C13: an accepted /chat/message request whose id is no UUID reads and
\* writes no durable table and appends its user message and its reply to
\* the in-process list of that id only; one whose id is a UUID neither
\* reads nor changes the in-process map.
C13_Step ==
  (turnCount' = turnCount + 1 /\ chatTurn'.status = 200) =>
    LET id == chatTurn'.id
        old == MapGet(ephemeral_chat_threads, id)
    IN IF id \in C13_Uuids
       THEN /\ ephemeral_chat_threads' = ephemeral_chat_threads
            /\ chatTurn'.calls \cap MapCalls = {}
       ELSE /\ chat_messages' = chat_messages
            /\ chat_conversations' = chat_conversations
            /\ chatTurn'.calls \cap DurableCalls = {}
            /\ DOMAIN ephemeral_chat_threads' = DOMAIN ephemeral_chat_threads \cup {id}
            /\ \A k \in DOMAIN ephemeral_chat_threads :
                 k # id => ephemeral_chat_threads'[k] = ephemeral_chat_threads[k]
            /\ Len(ephemeral_chat_threads'[id]) = Len(old) + 2
            /\ SubSeq(ephemeral_chat_threads'[id], 1, Len(old)) = old
            /\ ephemeral_chat_threads'[id][Len(old) + 1].message_type = "user"
            /\ ephemeral_chat_threads'[id][Len(old) + 2].content = chatTurn'.reply
C13_RoutedByIdSyntax == [][C13_Step]_vars

\* A conversation kept in the map only and a conversation kept in the
\* tables only.
C13_Witness ==
  /\ DOMAIN ephemeral_chat_threads = {Thread1}
  /\ Len(ephemeral_chat_threads[Thread1]) = 2
  /\ Len(chat_messages) = 2
  /\ \A i \in 1..2 : chat_messages[i].conversation_id = Uuid1
  /\ chat_conversations = {Uuid1}

\* C14: an accepted request whose id is no UUID hands to the graph, in
\* order, every message and reply the in-process map holds for that id
\* (those of the earlier requests with that id), then the new user message;
\* the list of an id holds the messages of that id only, user message and
\* reply in turn.
C14_Step ==
  (turnCount' = turnCount + 1 /\ chatTurn'.status = 200 /\ chatTurn'.id \notin C13_Uuids) =>
    LET id == chatTurn'.id
        old == MapGet(ephemeral_chat_threads, id)
        input == chatTurn'.input
    IN /\ Len(input) = Len(old) + 1
       /\ \A i \in 1..Len(old) :
            /\ input[i].content = old[i].content
            /\ input[i].type = (IF old[i].message_type = "user" THEN "human" ELSE "ai")
       /\ input[Len(input)] = Human(ephemeral_chat_threads'[id][Len(old) + 1].content)
C14_EphemeralContinuity ==
  /\ [](\A k \in DOMAIN ephemeral_chat_threads :
          \A i \in 1..Len(ephemeral_chat_threads[k]) :
            /\ ephemeral_chat_threads[k][i].conversation_id = k
            /\ ephemeral_chat_threads[k][i].message_type =
                 (IF i % 2 = 1 THEN "user" ELSE "ai")
            /\ ephemeral_chat_threads[k][i].index_order = i - 1)
  /\ [][C14_Step]_vars

\* The second request of conversation t1 replayed the first message and its
\* reply before the new message.
C14_Witness ==
  /\ chatTurn.status = 200 /\ chatTurn.id = Thread1
  /\ chatTurn.input = <<Human(<<"h", "i">>), Ai(Answer), Human(<<"h", "i">>)>>
  /\ Len(ephemeral_chat_threads[Thread1]) = 4

\* C15: the rows of a conversation in the chat_messages table have, in the
\* order of their creation, strictly increasing index_order values.
C15_IndexOrderIncreasing ==
  \A i \in 1..Len(chat_messages), j \in 1..Len(chat_messages) :
    (i < j /\ chat_messages[i].conversation_id = chat_messages[j].conversation_id)
      => chat_messages[i].index_order < chat_messages[j].index_order

\* C16: a /chat/message request whose message and id are not blank is
\* answered 200 with a reply that is not empty, whichever collaborators
\* fail; the only other answer is the 400 of a blank message or id.
C16_Step ==
  (turnCount' = turnCount + 1) =>
    /\ chatTurn'.status \in {200, 400}
    /\ chatTurn'.status = 400 => (chatTurn'.message = << >> \/ chatTurn'.id = << >>)
    /\ chatTurn'.status = 200 =>
         (chatTurn'.message # << >> /\ chatTurn'.id # << >> /\ chatTurn'.reply # << >>)
C16_ChatAlwaysAnswers == [][C16_Step]_vars

\* A request answered 200 although the chat backend was unavailable, the
\* embedding model could not be built and no durable write succeeded.
C16_Witness ==
  /\ chatTurn.status = 200 /\ chatTurn.id = Uuid1 /\ chatTurn.reply = Apology
  /\ "graph" \notin chatTurn.calls
  /\ embeddings_init_failed
  /\ chat_messages = << >>

\* C17: when the reply comes from the fallback and the similarity search was
\* not made (no embedding model) or raised, the reply is the fixed apology;
\* the reply is a fallback-mode text only when the search returned
\* documents.
C17_ApologyWhenRetrievalFails ==
  (chatTurn.status = 200 /\ chatTurn.reply # Answer) =>
    /\ chatTurn.search \in {"none", "raise"} => chatTurn.reply = Apology
    /\ chatTurn.reply \in {FallbackExcerpts, FallbackSerialized} => chatTurn.search = "docs"

\* C18: a /chat/message request whose message is blank, or that names no
\* conversation, is answered 400 and nothing else happens: the chat backend
\* and the embedding model are not touched, no table is read or written,
\* the in-process map and the checkpoints stay as they were.
C18_Step ==
  (turnCount' = turnCount + 1 /\ (chatTurn'.message = << >> \/ chatTurn'.id = << >>)) =>
    /\ chatTurn'.status = 400
    /\ chatTurn'.detail = (IF chatTurn'.message = << >> THEN "empty_message"
                           ELSE "id_required")
    /\ chatTurn'.calls = {}
    /\ UNCHANGED <<chatVars, embVars, ephemeral_chat_threads, chat_messages,
                   chat_conversations, checkpoints>>
C18_InvalidChatNoSideEffect == [][C18_Step]_vars

\* A request with a message and no conversation id was refused while the
\* chat model was still unbuilt.
C18_Witness ==
  /\ chatTurn.status = 400 /\ chatTurn.detail = "id_required"
  /\ chatTurn.message = <<"h", "i">>
  /\ chat_llm = "none" /\ ~chat_graph

\* C19: in a turn of an ephemeral (non-UUID) conversation the graph works
\* on exactly the replayed history followed by the new user message:
\* nothing kept from earlier invocations of the graph for that id is added.
C19_EphemeralGraphInput ==
  (chatTurn.status = 200 /\ chatTurn.id \notin C13_Uuids /\ "graph" \in chatTurn.calls) =>
    chatTurn.graphMessages = chatTurn.input

\* C20: a GET or a PUT by id of a project, a subcontractor or a budget whose
\* id matches no row, the store answering, is answered 404 with the detail
\* "<Resource> not found", and the three tables stay as they were.
C20_Names ==
  [projects |-> "Project", subcontractors |-> "Subcontractor", budgets |-> "Budget"]
C20_Rows ==
  [projects |-> projects, subcontractors |-> subcontractors, budgets |-> budgets]
C20_Step ==
  (/\ crudCount' = crudCount + 1
   /\ crudResponse'.op \in {"get", "put"}
   /\ crudResponse'.resource \in DOMAIN C20_Names
   /\ crudResponse'.id \notin 1..Len(C20_Rows[crudResponse'.resource])
   /\ crudResponse'.status # 500) =>
    /\ crudResponse'.status = 404
    /\ crudResponse'.detail = <<C20_Names[crudResponse'.resource], "not found">>
    /\ UNCHANGED <<projects, subcontractors, budgets>>
C23_Position(attempts, what) ==
  IF \E i \in 1..Len(attempts) : attempts[i] = what
  THEN CHOOSE i \in 1..Len(attempts) : attempts[i] = what
  ELSE 0
C23_Step ==
  (backendCall'.calls = backendCall.calls + 1) =>
    LET attempts == backendCall'.attempts
        primary == C23_Position(attempts, "ollama")
        secondary == C23_Position(attempts, "openai")
    IN /\ secondary # 0 =>
            primary # 0 /\ primary < secondary /\ ~backendCall'.env.ollama
       /\ ~backendCall'.ready => ~chat_graph'
       /\ backendCall'.ready => chat_graph' /\ chat_llm' # "none"
       /\ backendCall.ready =>
            /\ backendCall'.ready
            /\ attempts = << >>
            /\ UNCHANGED <<chat_llm, chat_graph>>
C23_ProvidersInOrderIdempotent == [][C23_Step]_vars

\* A second call found the backend that an earlier call built from the
\* secondary provider.
C23_Witness ==
  /\ backendCall.calls >= 2 /\ backendCall.ready /\ backendCall.attempts = << >>
  /\ chat_llm = "openai"

\* C29: a failed initialization of the chat backend is not sticky.  A call
\* made while no graph exists attempts an initialization again, however many
\* calls failed before; when a provider can be reached (or the model is
\* there) and the graph compiles, that call returns True; and a request whose
\* call returned True runs the graph and answers with the model's text
\* whenever the graph produced one.
C29_Builds(env) ==
  IF chat_llm # "none" THEN env.compile1 \/ env.compile2
  ELSE (env.ollama \/ (env.openaiKey /\ env.openai)) /\ env.compile2
C29_Step ==
  (backendCall'.calls = backendCall.calls + 1) =>
    /\ ~chat_graph =>
         /\ backendCall'.attempts # << >>
         /\ chat_llm = "none" => backendCall'.attempts[1] = "ollama"
         /\ C29_Builds(backendCall'.env) => backendCall'.ready /\ chat_graph'
    /\ (backendCall'.ready /\ chatTurn'.status = 200) =>
         /\ chatTurn'.graph # "none"
         /\ chatTurn'.graph \in {"reply", "tool_reply"} => chatTurn'.reply = Answer
C29_BackendFailureNotSticky == [][C29_Step]_vars

\* After a call that failed, a call built the backend from the primary
\* provider and the request was answered by the model.
C29_Witness ==
  /\ backendCall.failed >= 1 /\ backendCall.ready
  /\ backendCall.attempts = <<"ollama", "compile">>
  /\ chatTurn.reply = Answer

\* C21: an invocation of the chat graph visits the entry node alone, or the
\* entry node, the retrieval node and the generate node in this order, and
\* then ends.  The retrieval node runs only when the entry node's output
\* requested the tool, no node runs twice, the model is invoked at most
\* twice, and every invocation that started comes to an end.
C21_Long == <<"query_or_respond", "tools", "generate">>
C21_Safe ==
  /\ Len(graphRun.visited) <= Len(C21_Long)
  /\ \A i \in 1..Len(graphRun.visited) : graphRun.visited[i] = C21_Long[i]
  /\ graphRun.pc \in {"END", "raised"} => Len(graphRun.visited) \in {1, 3}
  /\ graphRun.pc = "END" /\ Len(graphRun.visited) = 1 => graphRun.last # "tool_calls"
  /\ Len(graphRun.visited) >= 2 => graphRun.tool # "none"
  /\ graphRun.pc \in {"tools", "generate"} \/ Len(graphRun.visited) >= 2 =>
       graphRun.invocations >= 1
  /\ graphRun.invocations <= 2
C21_Requested ==
  (graphRun'.pc = "tools" /\ graphRun.pc # "tools") =>
    graphRun.pc = "query_or_respond" /\ graphRun'.last = "tool_calls"
C21_GraphPath ==
  /\ []C21_Safe
  /\ [][C21_Requested]_vars
  /\ (graphRun.pc = "query_or_respond") ~> (graphRun.pc \in {"END", "raised"})

\* An invocation ended after the three nodes, the model invoked twice.
C21_Witness ==
  /\ graphRun.pc = "END" /\ graphRun.visited = C21_Long
  /\ graphRun.invocations = 2

\* C22: when the entry node runs with no chat model it answers the fixed
\* "not available" message and invokes neither the model nor the tool, and
\* no invocation of the graph ends with an exception.
C22_NoExceptionEscapes ==
  /\ graphRun.unavailable =>
       /\ graphRun.last = NotAvailable
       /\ graphRun.invocations = 0 /\ graphRun.tool = "none"
  /\ graphRun.pc # "raised"

\* C28: the compiled graph exists only if a chat model exists, neither is
\* reset once set, and no node of a running graph takes its "not available"
\* branch.
C28_Set ==
  /\ chat_llm # "none" => chat_llm' = chat_llm
  /\ chat_graph => chat_graph'
C28_GraphImpliesModel ==
  /\ [](chat_graph => chat_llm # "none")
  /\ [](~graphRun.unavailable)
  /\ [][C28_Set]_vars

\* A call compiled the graph for a model that an earlier call had built
\* without being able to compile, and the graph ran.
C28_Witness ==
  /\ backendCall.calls = 2 /\ backendCall.failed = 1
  /\ backendCall.attempts = <<"compile">>
  /\ chat_graph /\ graphRun.pc = "END"

\* C24: the chunks stored by one ingestion (one filename and one upload
\* timestamp) carry the same file_size, page_count, total_chunks and
\* full_document_text, and their chunk_index values are exactly 0..n-1, each
\* once, n being their total_chunks; the summary the request returns gives
\* this n as its chunk_count.
C24_Ingestion(r) ==
  {q \in store : q.filename = r.filename /\ q.upload_timestamp = r.upload_timestamp}
C26_FirstObjects(t) ==
  {b \in (1..Len(t)) \X (1..Len(t)) :
     /\ b[1] <= b[2]
     /\ \A j \in 1..(b[1] - 1) : t[j] # "L"
     /\ IsJsonObject(NoSpace(SubSeq(t, b[1], b[2])))
     /\ \E c \in ((b[2] + 2)..Len(t)) \X ((b[2] + 2)..Len(t)) :
          /\ c[1] <= c[2]
          /\ IsJsonObject(NoSpace(SubSeq(t, c[1], c[2])))
          /\ \A j \in (b[2] + 1)..(c[1] - 1) : t[j] \in {"P", "W", "N"}
          /\ \E j \in (b[2] + 1)..(c[1] - 1) : t[j] = "P"}
C26_FirstObjectReturned ==
  (/\ extraction # NotExtracted
   /\ \A j \in 1..Len(llmText) : llmText[j] # "F"
   /\ C26_FirstObjects(llmText) # {}) =>
    /\ extraction.ok
    /\ \E b \in C26_FirstObjects(llmText) :
         extraction.value = NoSpace(SubSeq(llmText, b[1], b[2]))

\* C27: a GET or a PUT of a schedule id that matches no row, the store
\* answering, is answered 404 "Schedule not found", as for the other
\* resources, and not 500.
C27_Step ==
  (/\ crudCount' = crudCount + 1
   /\ crudResponse'.op \in {"get", "put"}
   /\ crudResponse'.resource = "schedules"
   /\ crudResponse'.id \notin 1..Len(schedules)
   /\ crudResponse'.detail # <<"error">>) =>
    /\ crudResponse'.status = 404
    /\ crudResponse'.detail = <<"Schedule", "not found">>
C27_MissingScheduleIs404 == [][C27_Step]_vars

\* C30: a successful task generation returns, and inserts when persisting,
\* one row for each item with a task name among the first max_tasks items of
\* the model's list, max_tasks being the requested value brought into 1..20:
\* never more rows than that, items with an empty name left out, every row
\* with status "proposed" and no assignee; the request fails for want of
\* tasks only when none of those items has a name.
C30_Effective(requested) ==
  IF requested < 1 THEN 1 ELSE IF requested > 20 THEN 20 ELSE requested
C30_Named(items, max) ==
  {i \in 1..Len(items) :
     /\ i <= max
     /\ items[i].task_name.t = "str"
     /\ \E j \in 1..Len(items[i].task_name.s) : items[i].task_name.s[j] # " "}
C30_TasksBounded ==
  /\ (genResponse.op = "generate_tasks" /\ genResponse.status = 200) =>
       LET max == C30_Effective(genResponse.max_tasks)
           rows == genResponse.data
       IN /\ Len(rows) <= max
          /\ Len(rows) = Cardinality(C30_Named(llmTasks.items, max))
          /\ \A i \in 1..Len(rows) :
               /\ rows[i].status = "proposed"
               /\ rows[i].assigned_to = Null
               /\ rows[i].task_name # << >>
          /\ genResponse.persisted =>
               /\ Len(schedules) >= Len(rows)
               /\ SubSeq(schedules, Len(schedules) - Len(rows) + 1, Len(schedules)) = rows
  /\ (genResponse.op = "generate_tasks" /\ genResponse.detail = "no_valid_tasks") =>
       C30_Named(llmTasks.items, C30_Effective(genResponse.max_tasks)) = {}

\* 25 tasks were requested of a list of 22 items whose second item has an
\* empty name: 19 rows were inserted, the first for an item that the model
\* had marked done.
C30_Witness ==
  /\ genResponse.op = "generate_tasks" /\ genResponse.status = 200
  /\ genResponse.persisted /\ genResponse.max_tasks = 25
  /\ Len(llmTasks.items) = 22 /\ Len(genResponse.data) = 19
  /\ llmTasks.items[1].status # Null
====
